---------------------------- MODULE Spec2Model ----------------------------
(***************************************************************************)
(* Model of the generate-reflection edge function                          *)
(* (supabase/functions/generate-reflection/index.ts, the Gemini-backed     *)
(* version of the file, lines 142-354).                                    *)
(*                                                                         *)
(* A text is a sequence of atoms.  An atom is either one character ("a",   *)
(* ".", " ", "\n") or one literal chunk of a template string of the source *)
(* ("You captured: ").  Request fields and provider texts are made of      *)
(* characters only, so trimming, whitespace collapsing, sentence splitting *)
(* and substring search are computed character by character.               *)
(***************************************************************************)
EXTENDS Integers, Sequences, FiniteSets, TLC

(***************************************************************************)
(* Characters                                                              *)
(***************************************************************************)

\* The characters /\s/ and String.prototype.trim treat as whitespace,
\* restricted to the ones used in the model's inputs.
IsSpace(ch) == ch \in {" ", "\n", "\t"}

\* The character class [.!?] of the sentence split.
Terminal == {".", "!", "?"}

\* String.prototype.toLowerCase on one character (the upper-case letters
\* that occur in the model's inputs).
LowerChar(ch) ==
    CASE ch = "T" -> "t"
      [] ch = "G" -> "g"
      [] ch = "E" -> "e"
      [] OTHER -> ch

toLowerCase(s) == [i \in 1..Len(s) |-> LowerChar(s[i])]

(***************************************************************************)
(* String helpers of the JavaScript runtime, as the source uses them       *)
(***************************************************************************)

RECURSIVE TrimStart(_)
TrimStart(s) ==
    IF s = <<>> THEN s
    ELSE IF IsSpace(Head(s)) THEN TrimStart(Tail(s)) ELSE s

RECURSIVE TrimEnd(_)
TrimEnd(s) ==
    IF s = <<>> THEN s
    ELSE IF IsSpace(s[Len(s)]) THEN TrimEnd(SubSeq(s, 1, Len(s) - 1)) ELSE s

\* String.prototype.trim
Trim(s) == TrimEnd(TrimStart(s))

\* replace(/\s+/g, " "): every maximal run of whitespace becomes one space.
CollapseWhitespace(s) ==
    LET kept == SelectSeq([i \in 1..Len(s) |-> i],
                          LAMBDA i : ~IsSpace(s[i]) \/ i = 1 \/ ~IsSpace(s[i - 1]))
    IN  [k \in 1..Len(kept) |-> IF IsSpace(s[kept[k]]) THEN " " ELSE s[kept[k]]]

\* The last index of the whitespace run that starts at index i of s.
RECURSIVE RunEnd(_, _)
RunEnd(s, i) ==
    IF i < Len(s) /\ IsSpace(s[i + 1]) THEN RunEnd(s, i + 1) ELSE i

\* split(/(?<=[.!?])\s+/): the pieces of s from index start on, the scan
\* standing at index i.  A separator is a maximal whitespace run whose
\* preceding character is terminal punctuation; the punctuation stays with
\* the piece before it.
RECURSIVE SplitFrom(_, _, _)
SplitFrom(s, start, i) ==
    LET separators == {k \in i..Len(s) :
                          IsSpace(s[k]) /\ k > 1 /\ s[k - 1] \in Terminal}
    IN  IF separators = {} THEN <<SubSeq(s, start, Len(s))>>
        ELSE LET first == CHOOSE k \in separators : \A m \in separators : k <= m
                 j == RunEnd(s, first)
             IN  <<SubSeq(s, start, first - 1)>> \o SplitFrom(s, j + 1, j + 1)

SplitSentences(s) == SplitFrom(s, 1, 1)

\* Array.prototype.slice(0, n)
SliceFirst(xs, n) == SubSeq(xs, 1, IF Len(xs) < n THEN Len(xs) ELSE n)

\* Array.prototype.join(sep) on an array of texts
RECURSIVE Join(_, _)
Join(xs, sep) ==
    IF xs = <<>> THEN <<>>
    ELSE IF Len(xs) = 1 THEN xs[1]
    ELSE xs[1] \o sep \o Join(Tail(xs), sep)

\* String.prototype.includes
Includes(target, needle) ==
    \E i \in 1..(Len(target) - Len(needle) + 1) :
        SubSeq(target, i, i + Len(needle) - 1) = needle

(***************************************************************************)
(* The heuristic strategy                                                  *)
(***************************************************************************)

\* The number of leading sentences kept in the summary (slice(0, 3)).
SummarySentences == 3

positiveMarkers ==
    << <<"g","r","a","t","e","f","u","l">>,
       <<"e","x","c","i","t","e","d">>,
       <<"o","p","t","i","m","i","s","t","i","c">>,
       <<"e","n","e","r","g">>,
       <<"p","r","o","g","r","e","s","s">> >>

stressedMarkers ==
    << <<"t","i","r","e","d">>,
       <<"w","o","r","r","i","e","d">>,
       <<"a","n","x","i","o","u","s">>,
       <<"o","v","e","r","w","h","e","l","m","e","d">>,
       <<"s","t","r","e","s","s","e","d">>,
       <<"f","r","u","s","t","r","a","t","e","d">> >>

\* matchCount adding one per occurrence of a needle instead of one per
\* needle that occurs.
RECURSIVE matchCountPerOccurrence(_, _)
matchCountPerOccurrence(target, needles) ==
    IF needles = <<>> THEN 0
    ELSE Cardinality({i \in 1..(Len(target) - Len(Head(needles)) + 1) :
                         SubSeq(target, i, i + Len(Head(needles)) - 1) = Head(needles)})
         + matchCountPerOccurrence(target, Tail(needles))

\* needles.reduce((count, needle) => target.includes(needle) ? count + 1 : count, 0)
matchCount(target, needles) ==
    Cardinality({k \in 1..Len(needles) : Includes(target, needles[k])})

\* deriveTone with the first comparison written >=: a tie with at least one
\* positive marker reads as upbeat.
deriveToneTieUpbeat(content) ==
    LET lower == toLowerCase(content)
        positiveHits == matchCount(lower, positiveMarkers)
        stressedHits == matchCount(lower, stressedMarkers)
    IN  IF positiveHits >= stressedHits /\ positiveHits > 0 THEN "upbeat"
        ELSE IF stressedHits > positiveHits /\ stressedHits > 0 THEN "stressed"
        ELSE "steady"

deriveTone(content) ==
    LET lower == toLowerCase(content)
        positiveHits == matchCount(lower, positiveMarkers)
        stressedHits == matchCount(lower, stressedMarkers)
    IN  IF positiveHits > stressedHits /\ positiveHits > 0 THEN "upbeat"
        ELSE IF stressedHits > positiveHits /\ stressedHits > 0 THEN "stressed"
        ELSE "steady"

\* Normalisation that deletes the whitespace runs instead of collapsing
\* them: content.replace(/\s+/g, "").
NormalizedWithoutWhitespace(content) == SelectSeq(content, LAMBDA ch : ~IsSpace(ch))

\* const normalized = content.replace(/\s+/g, " ").trim()
Normalized(content) == Trim(CollapseWhitespace(content))

\* Sentences with the cut one sentence late (slice(0, 4)).
SentencesCutLate(normalized) ==
    SliceFirst(SelectSeq(SplitSentences(normalized), LAMBDA p : Len(p) > 0),
               SummarySentences + 1)

\* The first lines of buildReflection: the sentences kept, and the summary.
Sentences(normalized) ==
    SliceFirst(SelectSeq(SplitSentences(normalized), LAMBDA p : Len(p) > 0),
               SummarySentences)

Summary(content) ==
    LET normalized == Normalized(content)
        sentences == Sentences(normalized)
    IN  IF Len(sentences) > 0 THEN Join(sentences, <<" ">>) ELSE normalized

\* buildReflection with the tone paragraph appended before the goal
\* paragraph.
buildReflectionToneBeforeGoal(goal, content) ==
    LET normalized == Normalized(content)
        tone == deriveTone(normalized)
        base == <<"You captured: ">> \o Summary(content)
        withTone == base \o <<"\n\nOverall the tone feels ", tone, ".">>
        withGoal ==
            IF goal # <<>>
            THEN withTone \o <<"\n\nKeep your goal of \"">> \o goal
                          \o <<"\" in focus and notice how this entry relates to it.">>
            ELSE withTone
    IN  Trim(withGoal)

buildReflection(goal, content) ==
    LET normalized == Normalized(content)
        tone == deriveTone(normalized)
        base == <<"You captured: ">> \o Summary(content)
        withGoal ==
            IF goal # <<>>
            THEN base \o <<"\n\nKeep your goal of \"">> \o goal
                      \o <<"\" in focus and notice how this entry relates to it.">>
            ELSE base
        withTone == withGoal \o <<"\n\nOverall the tone feels ", tone, ".">>
    IN  Trim(withTone)

\* buildAction looking at the tone first: the goal is used only for a steady
\* entry.
buildActionToneFirst(goal, content) ==
    LET tone == deriveTone(content)
    IN  IF tone = "upbeat"
        THEN <<"Capture what made today energising and schedule more of it for the week ahead.">>
        ELSE IF tone = "stressed"
        THEN <<"Choose a small restorative habit for tomorrow - like a short walk, journaling break, or a conversation with a friend.">>
        ELSE IF goal # <<>>
        THEN <<"Identify one concrete step you can take in the next 24 hours to move \"">>
             \o goal \o <<"\" forward.">>
        ELSE <<"Note one takeaway from this entry and plan a follow-up action before your next journaling session.">>

\* buildAction without its last return: a steady entry without a goal gets
\* no action.
buildActionNoDefault(goal, content) ==
    IF goal # <<>>
    THEN <<"Identify one concrete step you can take in the next 24 hours to move \"">>
         \o goal \o <<"\" forward.">>
    ELSE LET tone == deriveTone(content)
         IN  IF tone = "upbeat"
             THEN <<"Capture what made today energising and schedule more of it for the week ahead.">>
             ELSE IF tone = "stressed"
             THEN <<"Choose a small restorative habit for tomorrow - like a short walk, journaling break, or a conversation with a friend.">>
             ELSE <<>>

buildAction(goal, content) ==
    IF goal # <<>>
    THEN <<"Identify one concrete step you can take in the next 24 hours to move \"">>
         \o goal \o <<"\" forward.">>
    ELSE LET tone == deriveTone(content)
         IN  IF tone = "upbeat"
             THEN <<"Capture what made today energising and schedule more of it for the week ahead.">>
             ELSE IF tone = "stressed"
             THEN <<"Choose a small restorative habit for tomorrow - like a short walk, journaling break, or a conversation with a friend.">>
             ELSE <<"Note one takeaway from this entry and plan a follow-up action before your next journaling session.">>

(***************************************************************************)
(* JSON values on the wire                                                 *)
(***************************************************************************)

\* One property of a JSON object (or one JavaScript value read from it):
\* absent, null, a number, or a string with its characters.  "undefined" is
\* what optional chaining yields for an absent or null property.
Field(t, s) == [t |-> t, s |-> s]
Absent == Field("absent", <<>>)
Null == Field("null", <<>>)
Num == Field("number", <<>>)
Undefined == Field("undefined", <<>>)
Str(s) == Field("string", s)

\* JavaScript truthiness of a value (the number of the model is non-zero).
Truthy(v) == (v.t = "string" /\ v.s # <<>>) \/ v.t = "number"

\* x?.trim(): undefined for an absent (undefined) or null x, the trimmed
\* string for a string, and a TypeError for any other value, which has no
\* trim method.
OptTrimThrows(x) == x.t \notin {"absent", "null", "undefined", "string"}
OptTrim(x) == IF x.t = "string" THEN Str(Trim(x.s)) ELSE Undefined

\* A request body as request.json() sees it: text that is not JSON
\* ("garbage"), or the parsed value: null, a number, an array or an object
\* with the three properties the handler reads.
Body(kind, entryId, content, goal) ==
    [kind |-> kind, entryId |-> entryId, content |-> content, goal |-> goal]

\* payload.<property>: a TypeError on null, undefined on a number or an
\* array, the property (or undefined) on an object.
PropThrows(payload) == payload.kind = "null"

(***************************************************************************)
(* Responses                                                               *)
(***************************************************************************)

baseHeaders ==
    { "Content-Type: application/json",
      "Access-Control-Allow-Origin: *",
      "Access-Control-Allow-Methods: POST, OPTIONS",
      "Access-Control-Allow-Headers: authorization, x-client-info, apikey, content-type" }

ResponseBody(kind, error, reflection, action) ==
    [kind |-> kind, error |-> error, reflection |-> reflection, action |-> action]

EmptyBody == ResponseBody("empty", <<>>, Absent, Absent)
ErrorBody(message) == ResponseBody("error", <<message>>, Absent, Absent)

\* jsonResponse answering with a Content-Type header only, the cross-origin
\* headers forgotten.
jsonResponseWithoutCors(body, status) ==
    [status |-> status, body |-> body,
     headers |-> {"Content-Type: application/json"}]

\* JSON.stringify of an object: a property whose value is undefined is left
\* out, every other property is written with its own type.
JsonStringify(body) ==
    [body EXCEPT !.reflection = IF @.t = "undefined" THEN Absent ELSE @,
                 !.action = IF @.t = "undefined" THEN Absent ELSE @]

jsonResponse(body, status) ==
    [status |-> status, body |-> JsonStringify(body), headers |-> baseHeaders]

\* What the HTTP server answers when the handler's promise rejects: the
\* exception is not caught anywhere in the handler.
UnhandledException ==
    [status |-> 500, body |-> ResponseBody("internal", <<>>, Absent, Absent),
     headers |-> {}]

NoResponse == [status |-> 0, body |-> EmptyBody, headers |-> {}]

(***************************************************************************)
(* The external strategy: what the provider can answer                     *)
(***************************************************************************)

\* The text of the first candidate part, as JSON.parse sees it: not JSON,
\* or the parsed value (null, a number, or an object with the two properties
\* the handler and the clients read).
ProviderText(kind, reflection, action) ==
    [kind |-> kind, reflection |-> reflection, action |-> action]

NoText == ProviderText("none", Absent, Absent)

\* kind: "transport" (fetch rejects), "status" (response.ok is false),
\* "badPayload" (response.json() rejects), "noText" (the candidate path
\* yields no text, or an empty one), "ok" (a non-empty text).
ProviderReply(kind, text) == [kind |-> kind, text |-> text]

NoReply == ProviderReply("none", NoText)

\* The call is out and will never settle.
Stalled == ProviderReply("stalled", NoText)

\* One console.error record: its message and what it carries with it (the
\* caught error, the HTTP status with the response text, the completion
\* payload, or the completion text).
LogRecord(message, carries) == [message |-> message, carries |-> carries]

\* safeJsonParse: null, with a log line, when JSON.parse throws.
safeJsonParse(text) ==
    IF text.kind = "invalid"
    THEN [parsed |-> ProviderText("null", Absent, Absent),
          logs |-> <<LogRecord("Failed to parse JSON", "error")>>]
    ELSE [parsed |-> text, logs |-> <<>>]

\* parsed?.reflection
ReflectionOf(parsed) ==
    IF parsed.kind = "object" /\ parsed.reflection.t \notin {"absent"}
    THEN parsed.reflection ELSE Undefined

\* tryGemini returning whatever JSON.parse produced, the check of
\* parsed?.reflection forgotten.
tryGeminiSettledUnchecked(reply) ==
    IF reply.kind \in {"transport", "badPayload", "status", "noText"}
    THEN [some |-> FALSE, result |-> NoText,
          logs |-> <<LogRecord("Unable to generate reflection via Gemini", "error")>>]
    ELSE LET p == safeJsonParse(reply.text)
         IN  IF p.parsed.kind # "object"
             THEN [some |-> FALSE, result |-> NoText, logs |-> p.logs]
             ELSE [some |-> TRUE, result |-> p.parsed, logs |-> p.logs]

\* tryGemini with an empty catch block: a rejected fetch or response.json()
\* returns null without a word.
tryGeminiSettledSilentCatch(reply) ==
    IF reply.kind \in {"transport", "badPayload"}
    THEN [some |-> FALSE, result |-> NoText, logs |-> <<>>]
    ELSE IF reply.kind = "status"
    THEN [some |-> FALSE, result |-> NoText,
          logs |-> <<LogRecord("Gemini request failed", "status")>>]
    ELSE IF reply.kind = "noText"
    THEN [some |-> FALSE, result |-> NoText,
          logs |-> <<LogRecord("Gemini completion missing content", "completion")>>]
    ELSE LET p == safeJsonParse(reply.text)
         IN  IF ~Truthy(ReflectionOf(p.parsed))
             THEN [some |-> FALSE, result |-> NoText,
                   logs |-> p.logs \o
                       <<LogRecord("Gemini completion did not include reflection", "text")>>]
             ELSE [some |-> TRUE, result |-> p.parsed, logs |-> p.logs]

\* tryGemini from the point where the provider exchange has settled
\* (lines 307-329): the value it returns (result, or none for null) and the
\* lines it logs with console.error.  Nothing escapes the try/catch.
tryGeminiSettled(reply) ==
    IF reply.kind \in {"transport", "badPayload"}
    THEN [some |-> FALSE, result |-> NoText,
          logs |-> <<LogRecord("Unable to generate reflection via Gemini", "error")>>]
    ELSE IF reply.kind = "status"
    THEN [some |-> FALSE, result |-> NoText, logs |-> <<LogRecord("Gemini request failed", "status")>>]
    ELSE IF reply.kind = "noText"
    THEN [some |-> FALSE, result |-> NoText,
          logs |-> <<LogRecord("Gemini completion missing content", "completion")>>]
    ELSE LET p == safeJsonParse(reply.text)
         IN  IF ~Truthy(ReflectionOf(p.parsed))
             THEN [some |-> FALSE, result |-> NoText,
                   logs |-> p.logs \o
                       <<LogRecord("Gemini completion did not include reflection", "text")>>]
             ELSE [some |-> TRUE, result |-> p.parsed, logs |-> p.logs]

\* The key test written as geminiKey === undefined: an empty key counts as
\* a credential.
KeyMissingUndefinedOnly(key) == key = "unset"

\* const geminiKey = Deno.env.get("GEMINI_API_KEY"); if (!geminiKey) return null
KeyMissing(key) == key \in {"unset", "empty"}

(***************************************************************************)
(* Inputs                                                                  *)
(***************************************************************************)

Chars_e1 == <<"e", "1">>
Chars_tired == <<"T", "i", "r", "e", "d">>
Chars_grateful == <<"g", "r", "a", "t", "e", "f", "u", "l">>

\* Request contents: empty, whitespace only, no punctuation, padded, more
\* than three sentences with runs of whitespace, and marker words.
SampleContents ==
    { <<>>,
      <<" ", "\n">>,
      <<"a">>,
      <<" ", "a", ".", " ", "\n", "b", " ">>,
      <<"a", ".", " ", "b", "?", "\n", "\n", "c", "!", " ", "d", ".", " ", "e">>,
      Chars_tired \o <<".", " ">> \o Chars_grateful \o <<" ">> \o Chars_tired,
      <<"\n">> \o Chars_grateful }

SampleIds == { <<>>, <<" ">>, Chars_e1, <<" ">> \o Chars_e1 \o <<"\n">> }

SampleGoals == { <<>>, <<" ">>, <<"g">>, <<" ", "g", " ", "h", " ">> }

EntryIdFields == {Absent, Null, Num} \cup {Str(s) : s \in SampleIds}
ContentFields == {Absent, Null, Num} \cup {Str(s) : s \in SampleContents}
GoalFields == {Absent, Null, Num} \cup {Str(s) : s \in SampleGoals}

ObjectBodies ==
    {Body("object", e, c, g) : e \in EntryIdFields, c \in ContentFields, g \in GoalFields}

Bodies ==
    ObjectBodies \cup
    {Body(k, Absent, Absent, Absent) : k \in {"garbage", "null", "number", "array"}}

Methods == {"OPTIONS", "POST", "PUT"}

ProviderTexts ==
    {ProviderText(k, Absent, Absent) : k \in {"invalid", "null", "number"}} \cup
    {ProviderText("object", rf, ac) :
        rf \in {Absent, Null, Num, Str(<<>>), Str(<<"R">>)},
        ac \in {Absent, Null, Num, Str(<<"A">>)}}

ProviderReplies ==
    {ProviderReply(k, NoText) : k \in {"transport", "status", "badPayload", "noText"}}
    \cup {ProviderReply("ok", t) : t \in ProviderTexts}

EnvValues == {"unset", "empty", "key"}

(***************************************************************************)
(* The web client: the journal page                                        *)
(*                                                                         *)
(* The page keeps the day's goals and stories, a flow status per story,    *)
(* and three refs for the auto-generate debounce.  Its texts are sequences *)
(* of characters like the service's; the composed AI response is a         *)
(* sequence whose literal parts are single elements.                       *)
(***************************************************************************)

\* FlowStatus; "none" is a story id without a key in storyStatuses, which
\* the page renders as 'idle'.
FlowStatuses == {"idle", "saving", "reflecting", "success", "error"}

NoSession == "none"
Sessions == {NoSession, "u1"}

INITIAL_STORY_ID == "story-initial"

\* createStoryId(): the ids Date.now() and Math.random() can yield.
CreatedStoryIds == {"n1", "n2"}
DraftStoryIds == {"d1"}
StoryIds == {INITIAL_STORY_ID} \cup CreatedStoryIds \cup DraftStoryIds

\* A story, without its title and creation time; a goal is its text.
createStory(id) == [id |-> id, journalEntry |-> <<>>, aiResponse |-> <<>>]

createInitialStory == createStory(INITIAL_STORY_ID)

\* The dailyGoals state of a fresh page, without its date.
InitialDailyGoals == [goals |-> <<>>, stories |-> <<createInitialStory>>]

GoalTexts == {<<"g", " ">>}

\* What the user can leave in a story's textarea.
MaxStories == 2
MaxGoals == 1
MaxGenerations == 2
EntryTexts == {<<>>, <<"a", " ">>, <<"a">>}

INITIAL_FEEDBACK == "Sign in, capture a goal, and write an entry to generate a reflection."
SignInFeedback == "Sign in to save entries and generate reflections."
NoFeedback == "null"

StoryIdsOf(stories) == {stories[i].id : i \in 1..Len(stories)}

\* A ref's entry for a story id: Absent when the key is not there.
NoRefs == [id \in StoryIds |-> Absent]

\* A timer of autoGenerateTimersRef: the render whose handleGenerate its
\* callback closes over.
Closure(sess, goals, stories) ==
    [set |-> TRUE, session |-> sess, goals |-> goals, stories |-> stories]
NoTimer == [set |-> FALSE, session |-> NoSession, goals |-> <<>>, stories |-> <<>>]
NoTimers == [id \in StoryIds |-> NoTimer]

(***************************************************************************)
(* Drafts                                                                  *)
(***************************************************************************)

\* A value of the draft row's goals column, as far as stories go: its type,
\* and the items of its stories array.
DraftStory(kind, id, journalEntry, aiResponse) ==
    [kind |-> kind, id |-> id, journalEntry |-> journalEntry, aiResponse |-> aiResponse]

\* The id of a draft story whose id is not a string.
NoStringId == "none"

DraftItems ==
    {DraftStory("null", NoStringId, Absent, Absent),
     DraftStory("object", NoStringId, Num, Absent),
     DraftStory("object", "d1", Str(<<"a", " ">>), Str(<<"R">>)),
     DraftStory("object", "d1", Str(<<"b">>), Absent),
     DraftStory("object", INITIAL_STORY_ID, Str(<<"a", " ">>), Num)}

MaxDraftStories == 2

\* goals holds the texts of the goal items the draft parses to.
Draft(kind, goals, storiesKind, stories) ==
    [kind |-> kind, goals |-> goals, storiesKind |-> storiesKind, stories |-> stories]

DraftGoals == {<<>>} \cup {<<g>> : g \in GoalTexts}

Drafts ==
    {Draft(k, <<>>, "absent", <<>>) : k \in {"null", "string"}}
    \cup {Draft("object", g, k, <<>>) : g \in DraftGoals, k \in {"absent", "string"}}
    \cup {Draft("object", g, "array", s) :
            g \in DraftGoals,
            s \in UNION {[1..n -> DraftItems] : n \in 0..MaxDraftStories}}

\* typeof field === 'string' ? field : ''
StringOrEmpty(field) == IF field.t = "string" THEN field.s ELSE <<>>

\* The items of a draft's stories array that need an id of createStoryId().
RECURSIVE MissingIds(_)
MissingIds(items) ==
    IF items = <<>> THEN 0
    ELSE (IF Head(items).kind = "object" /\ Head(items).id = NoStringId THEN 1 ELSE 0)
         + MissingIds(Tail(items))

\* value.stories.map(...).filter(Boolean): items that are not objects are
\* dropped, a field of the wrong type takes its default, and a story without
\* a string id takes the next id of createStoryId(), here the head of fresh.
RECURSIVE parsedStories(_, _)
parsedStories(items, fresh) ==
    IF items = <<>> THEN <<>>
    ELSE LET story == Head(items)
             hasId == story.id # NoStringId
         IN  IF story.kind # "object" THEN parsedStories(Tail(items), fresh)
             ELSE <<[id |-> IF hasId THEN story.id ELSE Head(fresh),
                     journalEntry |-> StringOrEmpty(story.journalEntry),
                     aiResponse |-> StringOrEmpty(story.aiResponse)]>>
                  \o parsedStories(Tail(items), IF hasId THEN fresh ELSE Tail(fresh))

normalizeGoalsFromDraft(raw, fresh) ==
    IF raw.kind # "object" THEN InitialDailyGoals
    ELSE LET parsed == IF raw.storiesKind = "array"
                       THEN parsedStories(raw.stories, fresh) ELSE <<>>
         IN  [goals |-> raw.goals,
              stories |-> IF Len(parsed) > 0 THEN parsed ELSE <<createInitialStory>>]

(***************************************************************************)
(* State                                                                   *)
(***************************************************************************)

\* The inbound requests in flight.  Spec handles them one at a time.
Slots == {"r1", "r2"}
MainSlot == "r1"

VARIABLES
    env,      \* the value of GEMINI_API_KEY in the process environment
    startKey, \* the value it had when the process started
    pc,       \* where each request's handler stands
    req,      \* the request: method and body
    local,    \* the handler's entryId, content, goal and the key tryGemini read
    reply,    \* what the provider exchange of the request settled with
    resp,     \* the response returned
    calls,    \* outbound provider calls issued for the request
    log,      \* console.error lines written for the request
    hGoal,    \* a direct run of the heuristic strategy: its goal argument,
    hContent, \* its content argument,
    hRan,     \* which of its functions have returned,
    hReflection, \* what buildReflection returned
    hAction,  \* what buildAction returned
    hTone,    \* what deriveTone returned
    hHits,    \* the two tallies deriveTone compared
    session,      \* the page's session state: NoSession for null
    draftLoading, \* a draft load of the session effect is awaited
    dailyGoals,   \* the page's goals and stories
    status,       \* the page's flow status
    feedback,     \* the page's feedback message
    storyStatuses,         \* the flow status kept per story id
    autoGenerateTimers,    \* autoGenerateTimersRef: the timer set per story id
    pendingAutoGeneration, \* pendingAutoGenerationRef: the text a timer waits on
    lastGeneratedContent,  \* lastGeneratedContentRef: the text last generated for
    generations   \* the handleGenerate runs that reached their first await

handlerVars == <<env, startKey, pc, req, local, reply, resp, calls, log>>
heuristicVars == <<hGoal, hContent, hRan, hReflection, hAction, hTone, hHits>>
clientVars == <<session, draftLoading, dailyGoals, status, feedback, storyStatuses,
                autoGenerateTimers, pendingAutoGeneration, lastGeneratedContent,
                generations>>
vars == <<handlerVars, heuristicVars, clientVars>>

NoHits == [positive |-> 0, stressed |-> 0]

NoRequest == [method |-> "none", body |-> Body("none", Absent, Absent, Absent)]
NoLocal == [entryId |-> <<>>, content |-> <<>>, goal |-> <<>>, key |-> "unread"]

\* The page's state and refs, and the generations it has started.
ClientIdle ==
    /\ session = NoSession
    /\ draftLoading = FALSE
    /\ dailyGoals = InitialDailyGoals
    /\ status = "idle"
    /\ feedback = INITIAL_FEEDBACK
    /\ storyStatuses = [id \in StoryIds |-> "none"]
    /\ autoGenerateTimers = NoTimers
    /\ pendingAutoGeneration = NoRefs
    /\ lastGeneratedContent = NoRefs
    /\ generations = <<>>

HandlerIdle ==
    /\ pc = [r \in Slots |-> "idle"]
    /\ req = [r \in Slots |-> NoRequest]
    /\ local = [r \in Slots |-> NoLocal]
    /\ reply = [r \in Slots |-> NoReply]
    /\ resp = [r \in Slots |-> NoResponse]
    /\ calls = [r \in Slots |-> 0]
    /\ log = [r \in Slots |-> <<>>]

Init ==
    /\ env \in EnvValues
    /\ startKey = env
    /\ HandlerIdle
    /\ hGoal = <<>>
    /\ hContent = <<>>
    /\ hRan = {}
    /\ hReflection = <<>>
    /\ hAction = <<>>
    /\ hTone = "none"
    /\ hHits = NoHits
    /\ ClientIdle

(***************************************************************************)
(* The handler (serve callback, lines 162-201)                             *)
(***************************************************************************)

\* The method checks without the test for POST: every method but OPTIONS is
\* handled.
MethodRouteOptionsOnly(method) ==
    IF method = "OPTIONS" THEN "preflight" ELSE "handle"

\* The two method checks at the top of the handler.
MethodRoute(method) ==
    IF method = "OPTIONS" THEN "preflight"
    ELSE IF method # "POST" THEN "notAllowed"
    ELSE "handle"

\* Validation with request.json().catch(() => ({})): a body that is not
\* JSON is read as an empty object and fails the required field check.
ValidateParseDefaultsToEmpty(body) ==
    IF body.kind = "garbage"
    THEN [outcome |-> "invalid", entryId |-> <<>>, content |-> <<>>, goal |-> <<>>]
    ELSE IF \/ PropThrows(body)
            \/ OptTrimThrows(body.entryId)
            \/ OptTrimThrows(body.content)
            \/ OptTrimThrows(body.goal)
    THEN [outcome |-> "threw", entryId |-> <<>>, content |-> <<>>, goal |-> <<>>]
    ELSE LET entryId == OptTrim(body.entryId)
             content == OptTrim(body.content)
             goal == OptTrim(body.goal)
         IN  [outcome |-> IF ~Truthy(entryId) \/ ~Truthy(content)
                          THEN "invalid" ELSE "valid",
              entryId |-> entryId.s,
              content |-> content.s,
              goal |-> goal.s]

\* Validation with const goal = payload.goal ?? "": the goal is defaulted
\* but not trimmed.
ValidateGoalUntrimmed(body) ==
    IF body.kind = "garbage"
    THEN [outcome |-> "malformed", entryId |-> <<>>, content |-> <<>>, goal |-> <<>>]
    ELSE IF \/ PropThrows(body)
            \/ OptTrimThrows(body.entryId)
            \/ OptTrimThrows(body.content)
            \/ OptTrimThrows(body.goal)
    THEN [outcome |-> "threw", entryId |-> <<>>, content |-> <<>>, goal |-> <<>>]
    ELSE LET entryId == OptTrim(body.entryId)
             content == OptTrim(body.content)
         IN  [outcome |-> IF ~Truthy(entryId) \/ ~Truthy(content)
                          THEN "invalid" ELSE "valid",
              entryId |-> entryId.s,
              content |-> content.s,
              goal |-> body.goal.s]

\* request.json() and the three optional-chained trims with the required
\* field check: the body is malformed, reading it throws a TypeError that
\* nothing catches, a required field is missing, or the request is valid.
Validate(body) ==
    IF body.kind = "garbage"
    THEN [outcome |-> "malformed", entryId |-> <<>>, content |-> <<>>, goal |-> <<>>]
    ELSE IF \/ PropThrows(body)
            \/ OptTrimThrows(body.entryId)
            \/ OptTrimThrows(body.content)
            \/ OptTrimThrows(body.goal)
    THEN [outcome |-> "threw", entryId |-> <<>>, content |-> <<>>, goal |-> <<>>]
    ELSE LET entryId == OptTrim(body.entryId)
             content == OptTrim(body.content)
             goal == OptTrim(body.goal)
         IN  [outcome |-> IF ~Truthy(entryId) \/ ~Truthy(content)
                          THEN "invalid" ELSE "valid",
              entryId |-> entryId.s,
              content |-> content.s,
              goal |-> goal.s]

HeuristicBody(goal, content) ==
    ResponseBody("result", <<>>, Str(buildReflection(goal, content)),
                 Str(buildAction(goal, content)))

\* A request arrives with a method and a body drawn from B.
Receive(r, B) ==
    /\ pc[r] = "idle"
    /\ \E m \in Methods, b \in B :
          req' = [req EXCEPT ![r] = [method |-> m, body |-> b]]
    /\ pc' = [pc EXCEPT ![r] = "received"]
    /\ UNCHANGED <<env, startKey, local, reply, resp, calls, log, heuristicVars, clientVars>>

\* Lines 163-169: the method is looked at before the body is read.
Dispatch(r) ==
    /\ pc[r] = "received"
    /\ LET route == MethodRoute(req[r].method)
       IN  IF route = "preflight"
           THEN /\ resp' = [resp EXCEPT ![r] =
                       [status |-> 204, body |-> EmptyBody, headers |-> baseHeaders]]
                /\ pc' = [pc EXCEPT ![r] = "done"]
           ELSE IF route = "notAllowed"
           THEN /\ resp' = [resp EXCEPT ![r] =
                       jsonResponse(ErrorBody("Method not allowed"), 405)]
                /\ pc' = [pc EXCEPT ![r] = "done"]
           ELSE /\ pc' = [pc EXCEPT ![r] = "reading"]
                /\ UNCHANGED resp
    /\ UNCHANGED <<env, startKey, req, local, reply, calls, log, heuristicVars, clientVars>>

\* The handler with tryGemini started before the required-field check: a
\* request that is then rejected with 422 has already called the provider.
ReadBodyCallsFirst(r) ==
    /\ pc[r] = "reading"
    /\ LET v == Validate(req[r].body)
       IN  IF v.outcome = "malformed"
           THEN /\ resp' = [resp EXCEPT ![r] =
                       jsonResponse(ErrorBody("Invalid JSON payload"), 400)]
                /\ pc' = [pc EXCEPT ![r] = "done"]
                /\ UNCHANGED <<local, calls>>
           ELSE IF v.outcome = "threw"
           THEN /\ resp' = [resp EXCEPT ![r] = UnhandledException]
                /\ pc' = [pc EXCEPT ![r] = "done"]
                /\ UNCHANGED <<local, calls>>
           ELSE IF v.outcome = "invalid"
           THEN /\ resp' = [resp EXCEPT ![r] =
                       jsonResponse(ErrorBody("Both entryId and content are required."), 422)]
                /\ pc' = [pc EXCEPT ![r] = "done"]
                /\ calls' = [calls EXCEPT ![r] = IF KeyMissing(env) THEN @ ELSE @ + 1]
                /\ UNCHANGED local
           ELSE /\ local' = [local EXCEPT ![r] =
                       [entryId |-> v.entryId, content |-> v.content,
                        goal |-> v.goal, key |-> env]]
                /\ IF KeyMissing(env)
                   THEN /\ pc' = [pc EXCEPT ![r] = "fallback"]
                        /\ UNCHANGED calls
                   ELSE /\ pc' = [pc EXCEPT ![r] = "fetching"]
                        /\ calls' = [calls EXCEPT ![r] = @ + 1]
                /\ UNCHANGED resp
    /\ UNCHANGED <<env, startKey, req, reply, log, heuristicVars, clientVars>>

\* Lines 171-186 and 270-305: request.json() has settled; the handler
\* validates and, in the same turn, tryGemini reads the key and either
\* returns null or issues the one fetch.
ReadBody(r) ==
    /\ pc[r] = "reading"
    /\ LET v == Validate(req[r].body)
       IN  IF v.outcome = "malformed"
           THEN /\ resp' = [resp EXCEPT ![r] =
                       jsonResponse(ErrorBody("Invalid JSON payload"), 400)]
                /\ pc' = [pc EXCEPT ![r] = "done"]
                /\ UNCHANGED <<local, calls>>
           ELSE IF v.outcome = "threw"
           THEN /\ resp' = [resp EXCEPT ![r] = UnhandledException]
                /\ pc' = [pc EXCEPT ![r] = "done"]
                /\ UNCHANGED <<local, calls>>
           ELSE IF v.outcome = "invalid"
           THEN /\ resp' = [resp EXCEPT ![r] =
                       jsonResponse(ErrorBody("Both entryId and content are required."), 422)]
                /\ pc' = [pc EXCEPT ![r] = "done"]
                /\ UNCHANGED <<local, calls>>
           ELSE /\ local' = [local EXCEPT ![r] =
                       [entryId |-> v.entryId, content |-> v.content,
                        goal |-> v.goal, key |-> env]]
                /\ IF KeyMissing(env)
                   THEN /\ pc' = [pc EXCEPT ![r] = "fallback"]
                        /\ UNCHANGED calls
                   ELSE /\ pc' = [pc EXCEPT ![r] = "fetching"]
                        /\ calls' = [calls EXCEPT ![r] = @ + 1]
                /\ UNCHANGED resp
    /\ UNCHANGED <<env, startKey, req, reply, log, heuristicVars, clientVars>>

\* Lines 285-305: the provider accepts the call and never answers.  fetch
\* is given no signal and nothing else races it, so the await of line 285
\* stays pending.
ProviderStalls(r) ==
    /\ pc[r] = "fetching"
    /\ reply[r] = NoReply
    /\ reply' = [reply EXCEPT ![r] = Stalled]
    /\ UNCHANGED <<env, startKey, pc, req, local, resp, calls, log, heuristicVars, clientVars>>

\* tryGemini with one retry: after a first soft failure the call is issued
\* again.
ProviderSettlesRetryOnce(r, RP) ==
    /\ pc[r] = "fetching"
    /\ reply[r] = NoReply
    /\ \E rp \in RP :
          LET out == tryGeminiSettled(rp)
          IN  /\ log' = [log EXCEPT ![r] = @ \o out.logs]
              /\ IF out.some
                 THEN /\ reply' = [reply EXCEPT ![r] = rp]
                      /\ resp' = [resp EXCEPT ![r] =
                             jsonResponse(ResponseBody("result", <<>>,
                                 out.result.reflection, out.result.action), 200)]
                      /\ pc' = [pc EXCEPT ![r] = "done"]
                      /\ UNCHANGED calls
                 ELSE IF calls[r] < 2
                 THEN /\ calls' = [calls EXCEPT ![r] = @ + 1]
                      /\ UNCHANGED <<reply, resp, pc>>
                 ELSE /\ reply' = [reply EXCEPT ![r] = rp]
                      /\ pc' = [pc EXCEPT ![r] = "fallback"]
                      /\ UNCHANGED <<resp, calls>>
    /\ UNCHANGED <<env, startKey, req, local, heuristicVars, clientVars>>

\* Lines 285-329 and 188-190: the provider exchange settles, in one of the
\* ways RP a provider can answer; tryGemini returns and the handler answers
\* with the provider's object or goes on to the heuristic.
ProviderSettles(r, RP) ==
    /\ pc[r] = "fetching"
    /\ reply[r] = NoReply
    /\ \E rp \in RP :
          LET out == tryGeminiSettled(rp)
          IN  /\ reply' = [reply EXCEPT ![r] = rp]
              /\ log' = [log EXCEPT ![r] = @ \o out.logs]
              /\ IF out.some
                 THEN /\ resp' = [resp EXCEPT ![r] =
                             jsonResponse(ResponseBody("result", <<>>,
                                 out.result.reflection, out.result.action), 200)]
                      /\ pc' = [pc EXCEPT ![r] = "done"]
                 ELSE /\ pc' = [pc EXCEPT ![r] = "fallback"]
                      /\ UNCHANGED resp
    /\ UNCHANGED <<env, startKey, req, local, calls, heuristicVars, clientVars>>

\* The fallback with goal and content kept in module-level variables: a
\* request that was validated while this one waited has overwritten them.
FallbackSharedLocals(r) ==
    /\ pc[r] = "fallback"
    /\ LET others == {q \in Slots \ {r} : local[q].key # "unread"}
           seen == IF others = {} THEN r ELSE CHOOSE q \in others : TRUE
       IN  resp' = [resp EXCEPT ![r] =
               jsonResponse(HeuristicBody(local[seen].goal, local[seen].content), 200)]
    /\ pc' = [pc EXCEPT ![r] = "done"]
    /\ UNCHANGED <<env, startKey, req, local, reply, calls, log, heuristicVars, clientVars>>

\* Lines 192-200: the heuristic result is the response.
Fallback(r) ==
    /\ pc[r] = "fallback"
    /\ resp' = [resp EXCEPT ![r] =
            jsonResponse(HeuristicBody(local[r].goal, local[r].content), 200)]
    /\ pc' = [pc EXCEPT ![r] = "done"]
    /\ UNCHANGED <<env, startKey, req, local, reply, calls, log, heuristicVars, clientVars>>

\* The response has been sent; nothing of the request is kept.
Finish(r) ==
    /\ pc[r] = "done"
    /\ pc' = [pc EXCEPT ![r] = "idle"]
    /\ req' = [req EXCEPT ![r] = NoRequest]
    /\ local' = [local EXCEPT ![r] = NoLocal]
    /\ reply' = [reply EXCEPT ![r] = NoReply]
    /\ resp' = [resp EXCEPT ![r] = NoResponse]
    /\ calls' = [calls EXCEPT ![r] = 0]
    /\ log' = [log EXCEPT ![r] = <<>>]
    /\ UNCHANGED <<env, startKey, heuristicVars, clientVars>>

\* The environment is outside the handler: the secret can be set, cleared
\* or changed while the process serves requests, and tryGemini reads it on
\* every call (line 271).
ChangeEnv ==
    /\ \E k \in EnvValues \ {env} : env' = k
    /\ UNCHANGED <<startKey, pc, req, local, reply, resp, calls, log, heuristicVars, clientVars>>

Next ==
    \/ Receive(MainSlot, Bodies)
    \/ Dispatch(MainSlot)
    \/ ReadBody(MainSlot)
    \/ ProviderStalls(MainSlot)
    \/ ProviderSettles(MainSlot, ProviderReplies)
    \/ Fallback(MainSlot)
    \/ Finish(MainSlot)
    \/ ChangeEnv

Spec == Init /\ [][Next]_vars

(***************************************************************************)
(* Requests handled concurrently                                           *)
(*                                                                         *)
(* serve starts the handler for each request as it arrives; the handlers   *)
(* interleave at their awaits (request.json(), fetch, response.json()).    *)
(* Both slots are in use, with a body for each outcome of validation and a *)
(* provider answer for each way tryGemini returns.                         *)
(***************************************************************************)

ConcBodies ==
    { Body("garbage", Absent, Absent, Absent),
      Body("object", Absent, Str(<<"a">>), Absent),
      Body("object", Str(Chars_e1), Str(Chars_tired), Absent),
      Body("object", Str(Chars_e1), Str(<<"a">>), Str(<<"g">>)) }

ConcReplies ==
    { ProviderReply("transport", NoText),
      ProviderReply("ok", ProviderText("invalid", Absent, Absent)),
      ProviderReply("ok", ProviderText("object", Str(<<"R">>), Str(<<"A">>))) }

NextConc ==
    \/ \E r \in Slots :
          \/ Receive(r, ConcBodies)
          \/ Dispatch(r)
          \/ ReadBody(r)
          \/ ProviderStalls(r)
          \/ ProviderSettles(r, ConcReplies)
          \/ Fallback(r)
          \/ Finish(r)
    \/ ChangeEnv

SpecConc == Init /\ [][NextConc]_vars

(***************************************************************************)
(* Direct runs of the heuristic strategy                                   *)
(*                                                                         *)
(* The handler only ever passes trimmed, non-empty content and a trimmed   *)
(* goal (lines 178-184).  HeuristicContents is every such content made of  *)
(* at most MaxFrags fragments.                                             *)
(***************************************************************************)

MaxFrags == 4

Frags ==
    { <<"a">>, <<".">>, <<" ">>, <<"?", "\n">>, <<"b", ".", " ">>, <<"!", "\t", " ">> }

RECURSIVE Concats(_)
Concats(n) ==
    IF n = 0 THEN {<<>>}
    ELSE LET shorter == Concats(n - 1)
         IN  shorter \cup {c \o f : c \in shorter, f \in Frags}

HeuristicContents == {Trim(c) : c \in Concats(MaxFrags)} \ {<<>>}

HeuristicGoals == {Trim(g) : g \in SampleGoals}

InitHeuristic ==
    /\ env = "unset"
    /\ startKey = "unset"
    /\ HandlerIdle
    /\ hGoal \in HeuristicGoals
    /\ hContent \in HeuristicContents
    /\ hRan = {}
    /\ hReflection = <<>>
    /\ hAction = <<>>
    /\ hTone = "none"
    /\ hHits = NoHits
    /\ ClientIdle

RunBuildReflection ==
    /\ "reflection" \notin hRan
    /\ hReflection' = buildReflection(hGoal, hContent)
    /\ hRan' = hRan \cup {"reflection"}
    /\ UNCHANGED <<clientVars, handlerVars, hGoal, hContent, hAction, hTone, hHits>>

RunBuildAction ==
    /\ "action" \notin hRan
    /\ hAction' = buildAction(hGoal, hContent)
    /\ hRan' = hRan \cup {"action"}
    /\ UNCHANGED <<clientVars, handlerVars, hGoal, hContent, hReflection, hTone, hHits>>

\* deriveTone alone, with the two tallies of lines 252-253.
RunDeriveTone ==
    /\ "tone" \notin hRan
    /\ hTone' = deriveTone(hContent)
    /\ hHits' = [positive |-> matchCount(toLowerCase(hContent), positiveMarkers),
                 stressed |-> matchCount(toLowerCase(hContent), stressedMarkers)]
    /\ hRan' = hRan \cup {"tone"}
    /\ UNCHANGED <<clientVars, handlerVars, hGoal, hContent, hReflection, hAction>>

NextHeuristic == RunBuildReflection \/ RunBuildAction \/ RunDeriveTone

SpecHeuristic == InitHeuristic /\ [][NextHeuristic]_vars

(***************************************************************************)
(* Direct runs of the heuristic strategy on contents with tone markers     *)
(*                                                                         *)
(* ToneContents is every trimmed, non-empty content made of at most        *)
(* MaxToneFrags fragments: marker words in either case, joined with or     *)
(* without a space, so that a marker occurs alone, repeated, inside a      *)
(* longer run of letters, or not at all; and three entries that hold every *)
(* marker of a list.                                                       *)
(***************************************************************************)

MaxToneFrags == 4

Chars_Energ == <<"E", "n", "e", "r", "g">>
Chars_worried == <<"w", "o", "r", "r", "i", "e", "d">>

ToneFrags ==
    { Chars_grateful, Chars_Energ, Chars_tired, Chars_worried, <<" ">>, <<".", " ">> }

RECURSIVE ToneConcats(_)
ToneConcats(n) ==
    IF n = 0 THEN {<<>>}
    ELSE LET shorter == ToneConcats(n - 1)
         IN  shorter \cup {c \o f : c \in shorter, f \in ToneFrags}

ToneSamples ==
    { Join(positiveMarkers, <<" ">>),
      Join(stressedMarkers, <<" ">>),
      Join(positiveMarkers \o stressedMarkers, <<" ">>),
      <<"t", "i", " ", "\n", "r", "e", "d">>,
      Chars_tired \o <<"\n", "\n", " ">> \o Chars_worried \o <<"\t", " ">> \o Chars_grateful,
      Chars_grateful \o <<".", "\n", "\n">> \o Chars_Energ \o <<" ", " ">> \o Chars_tired }

ToneContents ==
    ({Trim(c) : c \in ToneConcats(MaxToneFrags)} \ {<<>>}) \cup ToneSamples

ToneGoals == { <<>>, <<"g">> }

InitTone ==
    /\ env = "unset"
    /\ startKey = "unset"
    /\ HandlerIdle
    /\ hGoal \in ToneGoals
    /\ hContent \in ToneContents
    /\ hRan = {}
    /\ hReflection = <<>>
    /\ hAction = <<>>
    /\ hTone = "none"
    /\ hHits = NoHits
    /\ ClientIdle

SpecTone == InitTone /\ [][NextHeuristic]_vars

(***************************************************************************)
(* The journal page: rendering and the auto-generate effect                *)
(***************************************************************************)

Refs == [timers |-> autoGenerateTimers,
         pending |-> pendingAutoGeneration,
         last |-> lastGeneratedContent]

\* The status the page shows for a story: storyStatuses[story.id] ?? 'idle'.
storyStatus(id) == IF storyStatuses[id] = "none" THEN "idle" ELSE storyStatuses[id]

storyGenerating(id) == storyStatus(id) \in {"saving", "reflecting"}

\* The Generate button of a story is rendered enabled.
GenerateEnabled(id) ==
    /\ id \in StoryIdsOf(dailyGoals.stories)
    /\ ~storyGenerating(id)
    /\ session # NoSession

\* delete statuses[storyId]
WithoutStatus(statuses, id) == [statuses EXCEPT ![id] = "none"]

\* What handleGenerate(storyId) reads of the render it closes over: the
\* session, the goals, and the stories of that id.
ClosureOf(closure, storyId) ==
    [closure EXCEPT !.stories = SelectSeq(@, LAMBDA story : story.id = storyId)]

\* One story of the effect's forEach: what it does to the three refs.
\* closure is the render the effect belongs to.
autoGenerateStory(story, refs, sess, statuses, closure) ==
    LET id == story.id
        trimmedEntry == Trim(story.journalEntry)
        last == IF /\ story.aiResponse # <<>>
                   /\ trimmedEntry # <<>>
                   /\ refs.last[id] = Absent
                THEN [refs.last EXCEPT ![id] = Str(trimmedEntry)]
                ELSE refs.last
        kept == [refs EXCEPT !.last = last]
    IN  IF trimmedEntry = <<>>
        THEN [timers |-> [refs.timers EXCEPT ![id] = NoTimer],
              pending |-> [refs.pending EXCEPT ![id] = Absent],
              last |-> [last EXCEPT ![id] = Absent]]
        ELSE IF sess = NoSession THEN kept
        ELSE IF statuses[id] \in {"saving", "reflecting"} THEN kept
        ELSE IF refs.pending[id] = Str(trimmedEntry) \/ last[id] = Str(trimmedEntry)
        THEN kept
        ELSE [timers |-> [refs.timers EXCEPT ![id] = ClosureOf(closure, id)],
              pending |-> [refs.pending EXCEPT ![id] = Str(trimmedEntry)],
              last |-> last]

RECURSIVE autoGenerateStories(_, _, _, _, _)
autoGenerateStories(stories, refs, sess, statuses, closure) ==
    IF stories = <<>> THEN refs
    ELSE autoGenerateStories(Tail(stories),
                             autoGenerateStory(Head(stories), refs, sess, statuses, closure),
                             sess, statuses, closure)

\* The auto-generate effect of a render: every story in turn, then the
\* entries of stories that are gone are dropped from the three refs.
autoGenerateEffect(goalsState, sess, statuses, refs) ==
    LET closure == Closure(sess, goalsState.goals, goalsState.stories)
        after == autoGenerateStories(goalsState.stories, refs, sess, statuses, closure)
        activeStoryIds == StoryIdsOf(goalsState.stories)
    IN  [timers |-> [id \in StoryIds |->
                        IF id \in activeStoryIds THEN after.timers[id] ELSE NoTimer],
         pending |-> [id \in StoryIds |->
                        IF id \in activeStoryIds THEN after.pending[id] ELSE Absent],
         last |-> [id \in StoryIds |->
                        IF id \in activeStoryIds THEN after.last[id] ELSE Absent]]

\* The render that follows a handler's state updates, and its effect on the
\* refs as the handler left them.
Rendered(refs) ==
    LET after == autoGenerateEffect(dailyGoals', session', storyStatuses', refs)
    IN  /\ autoGenerateTimers' = after.timers
        /\ pendingAutoGeneration' = after.pending
        /\ lastGeneratedContent' = after.last

(***************************************************************************)
(* The journal page: session, draft, goals and stories                     *)
(***************************************************************************)

\* The generations after the stories became stories: a generation that
\* returned is "past" once the entry text of its story is no longer the one
\* it returned to.
AfterTextChange(stories) ==
    [i \in 1..Len(generations) |->
        LET g == generations[i]
            was == SelectSeq(dailyGoals.stories, LAMBDA story : story.id = g.story)
            now == SelectSeq(stories, LAMBDA story : story.id = g.story)
        IN  IF /\ g.phase = "done"
               /\ [k \in 1..Len(was) |-> was[k].journalEntry]
                    # [k \in 1..Len(now) |-> now[k].journalEntry]
            THEN [g EXCEPT !.phase = "past"]
            ELSE g]

\* getSession() resolves or onAuthStateChange fires: a session (a new object
\* each time, so the draft is loaded again) or null.
SessionArrives(nextSession) ==
    /\ session' = nextSession
    /\ draftLoading' = (nextSession # NoSession)
    /\ feedback' = IF nextSession # NoSession THEN NoFeedback ELSE INITIAL_FEEDBACK
    /\ UNCHANGED <<dailyGoals, status, storyStatuses, generations>>
    /\ Rendered(Refs)
    /\ UNCHANGED <<handlerVars, heuristicVars>>

\* Ids of createStoryId() that no story and no generation holds.
UnusedIds ==
    CreatedStoryIds \ (StoryIdsOf(dailyGoals.stories)
                       \cup {generations[i].story : i \in 1..Len(generations)})

\* loadDraft gets the draft row: the row's goals column, or null without a
\* row.
DraftLoaded(raw) ==
    /\ draftLoading
    /\ session # NoSession
    /\ \E fresh \in [1..MissingIds(raw.stories) -> UnusedIds] :
          /\ \A i, j \in DOMAIN fresh : i # j => fresh[i] # fresh[j]
          /\ dailyGoals' = normalizeGoalsFromDraft(raw, fresh)
    /\ storyStatuses' = [id \in StoryIds |-> "none"]
    /\ draftLoading' = FALSE
    /\ generations' = AfterTextChange(dailyGoals'.stories)
    /\ UNCHANGED <<session, status, feedback>>
    /\ Rendered(Refs)
    /\ UNCHANGED <<handlerVars, heuristicVars>>

\* signOut() resolved without an error: the auth change clears the session,
\* and the handler resets the day.
handleSignOut ==
    /\ session # NoSession
    /\ session' = NoSession
    /\ draftLoading' = FALSE
    /\ feedback' = INITIAL_FEEDBACK
    /\ dailyGoals' = InitialDailyGoals
    /\ storyStatuses' = [id \in StoryIds |-> "none"]
    /\ generations' = AfterTextChange(dailyGoals'.stories)
    /\ UNCHANGED status
    /\ Rendered(Refs)
    /\ UNCHANGED <<handlerVars, heuristicVars>>

\* The timer of the next midnight fires.
MidnightReset ==
    /\ dailyGoals' = dailyGoals
    /\ storyStatuses' = [id \in StoryIds |-> "none"]
    /\ UNCHANGED <<session, draftLoading, status, feedback, generations>>
    /\ Rendered(Refs)
    /\ UNCHANGED <<handlerVars, heuristicVars>>

handleAddGoal(text) ==
    /\ Len(dailyGoals.goals) < MaxGoals
    /\ Trim(text) # <<>>
    /\ dailyGoals' = [dailyGoals EXCEPT !.goals = Append(@, Trim(text))]
    /\ UNCHANGED <<session, draftLoading, status, feedback, storyStatuses, generations>>
    /\ Rendered(Refs)
    /\ UNCHANGED <<handlerVars, heuristicVars>>

handleAddStory ==
    /\ Len(dailyGoals.stories) < MaxStories
    /\ \E id \in UnusedIds :
          dailyGoals' = [dailyGoals EXCEPT !.stories = <<createStory(id)>> \o @]
    /\ UNCHANGED <<session, draftLoading, status, feedback, storyStatuses, generations>>
    /\ Rendered(Refs)
    /\ UNCHANGED <<handlerVars, heuristicVars>>

handleJournalEntryChange(storyId, value) ==
    /\ \E i \in 1..Len(dailyGoals.stories) :
          /\ dailyGoals.stories[i].id = storyId
          /\ dailyGoals.stories[i].journalEntry # value
    /\ dailyGoals' =
          [dailyGoals EXCEPT !.stories =
              [i \in 1..Len(@) |->
                  IF @[i].id = storyId THEN [@[i] EXCEPT !.journalEntry = value]
                                       ELSE @[i]]]
    /\ storyStatuses' = WithoutStatus(storyStatuses, storyId)
    /\ generations' = AfterTextChange(dailyGoals'.stories)
    /\ UNCHANGED <<session, draftLoading, status, feedback>>
    /\ Rendered([timers |-> [autoGenerateTimers EXCEPT ![storyId] = NoTimer],
                 pending |-> [pendingAutoGeneration EXCEPT ![storyId] = Absent],
                 last |-> [lastGeneratedContent EXCEPT ![storyId] = Absent]])
    /\ UNCHANGED <<handlerVars, heuristicVars>>

\* setDailyGoals of handleApplyAiResponse
applyAiResponse(stories, storyId, response) ==
    [i \in 1..Len(stories) |->
        IF stories[i].id = storyId THEN [stories[i] EXCEPT !.aiResponse = response]
                                   ELSE stories[i]]

handleDeleteStory(storyId) ==
    /\ storyId \in StoryIdsOf(dailyGoals.stories)
    /\ dailyGoals' =
          IF Len(dailyGoals.stories) <= 1 THEN dailyGoals
          ELSE [dailyGoals EXCEPT !.stories = SelectSeq(@, LAMBDA story : story.id # storyId)]
    /\ storyStatuses' = WithoutStatus(storyStatuses, storyId)
    /\ generations' = AfterTextChange(dailyGoals'.stories)
    /\ UNCHANGED <<session, draftLoading, status, feedback>>
    /\ Rendered(Refs)
    /\ UNCHANGED <<handlerVars, heuristicVars>>

(***************************************************************************)
(* The journal page: generating a reflection                               *)
(***************************************************************************)

\* A run of handleGenerate that reached its first await: the story id and
\* the texts it captured, the await it stands at, whether the story's timer
\* called it (kept while the insert is awaited) and, while the invocation
\* is awaited, the id of the row the insert returned and the body the
\* function was invoked with.
Generation(story, content, goal, auto) ==
    [story |-> story, phase |-> "insert", content |-> content, goal |-> goal,
     auto |-> auto, row |-> "none", body |-> <<>>]

InvokeBody(entryId, goal, content) ==
    [entryId |-> entryId, goal |-> goal, content |-> content]

\* What supabase answers the three awaited calls with.
RowIds == {"e1", "e2"}
InsertResult(error, row) == [error |-> error, row |-> row]
InsertResults ==
    {InsertResult(TRUE, "none"), InsertResult(FALSE, "none")}
    \cup {InsertResult(FALSE, id) : id \in RowIds}

InvokeResult(error, reflection, action) ==
    [error |-> error, reflection |-> reflection, action |-> action]
InvokeResults ==
    {InvokeResult(TRUE, Absent, Absent)}
    \cup {InvokeResult(FALSE, rf, ac) :
            rf \in {Absent, Num, Str(<<" ", "R">>)},
            ac \in {Absent, Str(<<"A", " ">>)}}

NextStepPrefix == "Next step: "
BlankLine == "\n\n"
NoContentMessage ==
    <<"AI reflection generated successfully, but no content was returned from the function.">>

\* typeof x === 'string' ? x.trim() : ''
safeText(x) == IF x.t = "string" THEN Trim(x.s) ELSE <<>>

\* [safeReflection, safeAction ? `Next step: ${safeAction}` : null]
\*   .filter(Boolean).join('\n\n')
composedReflection(reflection, action) ==
    LET safeReflection == safeText(reflection)
        safeAction == safeText(action)
        nextStep == IF safeAction # <<>> THEN <<NextStepPrefix>> \o safeAction ELSE <<>>
    IN  IF safeReflection # <<>> /\ nextStep # <<>>
        THEN safeReflection \o <<BlankLine>> \o nextStep
        ELSE safeReflection \o nextStep

\* dailyGoals.goals.map(text.trim()).filter(Boolean).join('; ')
goalsPayload(goals) ==
    Join(SelectSeq([i \in 1..Len(goals) |-> Trim(goals[i])], LAMBDA g : g # <<>>),
         <<";", " ">>)

FindStory(stories, storyId) ==
    IF storyId \in StoryIdsOf(stories)
    THEN stories[CHOOSE i \in 1..Len(stories) :
                    /\ stories[i].id = storyId
                    /\ \A j \in 1..(i - 1) : stories[j].id # storyId]
    ELSE createStory("none")

\* handleGenerate(storyId) up to its first await, called from the render
\* closure: the session, goals and stories of the render the function
\* belongs to.  refs are the refs as its caller left them.
handleGenerate(storyId, closure, refs, auto) ==
    LET cleared == [refs EXCEPT !.timers[storyId] = NoTimer,
                                !.pending[storyId] = Absent]
        story == FindStory(closure.stories, storyId)
        trimmedEntry == Trim(story.journalEntry)
    IN  IF closure.session = NoSession
        THEN /\ feedback' = SignInFeedback
             /\ status' = "error"
             /\ UNCHANGED <<session, draftLoading, dailyGoals, storyStatuses, generations>>
             /\ Rendered(refs)
        ELSE IF storyId \notin StoryIdsOf(closure.stories)
        THEN /\ feedback' = "Unable to find the selected entry."
             /\ status' = "error"
             /\ UNCHANGED <<session, draftLoading, dailyGoals, storyStatuses, generations>>
             /\ Rendered(cleared)
        ELSE IF trimmedEntry = <<>>
        THEN /\ feedback' = "Add a journal entry before requesting a reflection."
             /\ status' = "error"
             /\ UNCHANGED <<session, draftLoading, dailyGoals, storyStatuses, generations>>
             /\ Rendered(cleared)
        ELSE /\ Len(generations) < MaxGenerations
             /\ feedback' = NoFeedback
             /\ status' = "saving"
             /\ storyStatuses' = [storyStatuses EXCEPT ![storyId] = "saving"]
             /\ dailyGoals' = [dailyGoals EXCEPT
                                 !.stories = applyAiResponse(@, storyId, <<>>)]
             /\ generations' = Append(generations,
                                  Generation(storyId, trimmedEntry,
                                             goalsPayload(closure.goals), auto))
             /\ UNCHANGED <<session, draftLoading>>
             /\ Rendered(cleared)

\* The user clicks a story's Generate button, which the page renders
\* enabled: the handler of the current render runs.
ClickGenerate(storyId) ==
    /\ GenerateEnabled(storyId)
    /\ handleGenerate(storyId,
                      ClosureOf(Closure(session, dailyGoals.goals, dailyGoals.stories),
                                storyId),
                      Refs, FALSE)
    /\ UNCHANGED <<handlerVars, heuristicVars>>

\* handleGenerate called while the page has no session.
GenerateSignedOut(storyId) ==
    /\ session = NoSession
    /\ storyId \in StoryIdsOf(dailyGoals.stories)
    /\ handleGenerate(storyId,
                      ClosureOf(Closure(session, dailyGoals.goals, dailyGoals.stories),
                                storyId),
                      Refs, FALSE)
    /\ UNCHANGED <<handlerVars, heuristicVars>>

\* A story's auto-generate timer fires, AUTO_GENERATE_DELAY_MS after the
\* effect set it: its callback runs the handleGenerate of the effect's
\* render.
TimerFires(storyId) ==
    /\ autoGenerateTimers[storyId].set
    /\ handleGenerate(storyId, autoGenerateTimers[storyId],
                      [Refs EXCEPT !.timers[storyId] = NoTimer,
                                   !.pending[storyId] = Absent],
                      TRUE)
    /\ UNCHANGED <<handlerVars, heuristicVars>>

\* A generation that returned: only its story is remembered.
Returned(g) ==
    [Generation(g.story, <<>>, <<>>, FALSE) EXCEPT !.phase = "done"]

\* The catch block of handleGenerate.
Failed(i, message) ==
    LET g == generations[i]
    IN  /\ feedback' = message
        /\ status' = "error"
        /\ storyStatuses' = [storyStatuses EXCEPT ![g.story] = "error"]
        /\ generations' = [generations EXCEPT ![i] = Returned(g)]
        /\ UNCHANGED <<session, draftLoading, dailyGoals>>
        /\ Rendered([Refs EXCEPT !.last[g.story] = Str(g.content)])

\* The end of the try block of handleGenerate.
Succeeded(i, stories) ==
    LET g == generations[i]
    IN  /\ feedback' = "Reflection generated successfully."
        /\ status' = "success"
        /\ storyStatuses' = [storyStatuses EXCEPT ![g.story] = "success"]
        /\ generations' = [generations EXCEPT ![i] = Returned(g)]
        /\ dailyGoals' = [dailyGoals EXCEPT !.stories = stories]
        /\ UNCHANGED <<session, draftLoading>>
        /\ Rendered([Refs EXCEPT !.last[g.story] = Str(g.content)])

\* The journal_entries insert of a generation settles.
InsertSettles(i, result) ==
    /\ i \in 1..Len(generations)
    /\ generations[i].phase = "insert"
    /\ LET g == generations[i]
       IN  IF result.error THEN Failed(i, "insert error")
           ELSE IF result.row = "none" THEN Failed(i, "Failed to record journal entry.")
           ELSE /\ status' = "reflecting"
                /\ storyStatuses' = [storyStatuses EXCEPT ![g.story] = "reflecting"]
                /\ generations' =
                      [generations EXCEPT
                          ![i].phase = "invoke",
                          ![i].auto = FALSE,
                          ![i].row = result.row,
                          ![i].body = <<InvokeBody(result.row, g.goal, g.content)>>]
                /\ UNCHANGED <<session, draftLoading, dailyGoals, feedback>>
                /\ Rendered(Refs)
    /\ UNCHANGED <<handlerVars, heuristicVars>>

\* The generate-reflection invocation of a generation settles.
InvokeSettles(i, result) ==
    /\ i \in 1..Len(generations)
    /\ generations[i].phase = "invoke"
    /\ LET g == generations[i]
           composed == composedReflection(result.reflection, result.action)
           stories == applyAiResponse(dailyGoals.stories, g.story,
                                      IF composed # <<>> THEN composed
                                                         ELSE NoContentMessage)
       IN  IF result.error THEN Failed(i, "invoke error")
           ELSE IF Truthy(result.reflection)
           THEN /\ dailyGoals' = [dailyGoals EXCEPT !.stories = stories]
                /\ generations' =
                      [generations EXCEPT ![i].phase = "insight",
                                          ![i].row = "none",
                                          ![i].body = <<>>]
                /\ UNCHANGED <<session, draftLoading, status, feedback, storyStatuses>>
                /\ Rendered(Refs)
           ELSE Succeeded(i, stories)
    /\ UNCHANGED <<handlerVars, heuristicVars>>

\* An entry_insights insert whose error is thrown into the catch block.
InsightSettlesThrows(i, insightError) ==
    /\ i \in 1..Len(generations)
    /\ generations[i].phase = "insight"
    /\ IF insightError THEN Failed(i, "insight error")
                       ELSE Succeeded(i, dailyGoals.stories)
    /\ UNCHANGED <<handlerVars, heuristicVars>>

\* The entry_insights insert of a generation settles, with an error or
\* without one.
InsightSettles(i, insightError) ==
    /\ i \in 1..Len(generations)
    /\ generations[i].phase = "insight"
    /\ Succeeded(i, dailyGoals.stories)
    /\ UNCHANGED <<handlerVars, heuristicVars>>

InitClient ==
    /\ env = "unset"
    /\ startKey = "unset"
    /\ HandlerIdle
    /\ hGoal = <<>>
    /\ hContent = <<>>
    /\ hRan = {}
    /\ hReflection = <<>>
    /\ hAction = <<>>
    /\ hTone = "none"
    /\ hHits = NoHits
    /\ ClientIdle

\* The drafts a page with one story is checked with: no row, and rows with
\* the initial story.
ClientDrafts ==
    {Draft("null", <<>>, "absent", <<>>)}
    \cup {Draft("object", <<>>, "array",
                <<DraftStory("object", INITIAL_STORY_ID, Str(<<"a", " ">>), ai)>>) :
            ai \in {Num, Str(<<"R">>)}}

\* The page with its first story: sessions, drafts, edits and generations.
NextClient ==
    \/ \E nextSession \in Sessions : SessionArrives(nextSession)
    \/ \E raw \in ClientDrafts : DraftLoaded(raw)
    \/ handleSignOut
    \/ MidnightReset
    \/ \E storyId \in StoryIds, value \in EntryTexts : handleJournalEntryChange(storyId, value)
    \/ \E storyId \in StoryIds : ClickGenerate(storyId)
    \/ \E storyId \in StoryIds : GenerateSignedOut(storyId)
    \/ \E storyId \in StoryIds : TimerFires(storyId)
    \/ \E i \in 1..MaxGenerations, result \in InsertResults : InsertSettles(i, result)
    \/ \E i \in 1..MaxGenerations, result \in InvokeResults : InvokeSettles(i, result)
    \/ \E i \in 1..MaxGenerations, insightError \in BOOLEAN : InsightSettles(i, insightError)

SpecClient == InitClient /\ [][NextClient]_vars

\* A signed-in user with goals who writes and generates while the draft load
\* is awaited.
NextGenerate ==
    \/ SessionArrives("u1")
    \/ \E text \in GoalTexts : handleAddGoal(text)
    \/ \E storyId \in StoryIds, value \in EntryTexts : handleJournalEntryChange(storyId, value)
    \/ \E storyId \in StoryIds : ClickGenerate(storyId)
    \/ \E storyId \in StoryIds : TimerFires(storyId)
    \/ \E i \in 1..MaxGenerations, result \in InsertResults : InsertSettles(i, result)
    \/ \E i \in 1..MaxGenerations, result \in InvokeResults : InvokeSettles(i, result)
    \/ \E i \in 1..MaxGenerations, insightError \in BOOLEAN : InsightSettles(i, insightError)

SpecGenerate == InitClient /\ [][NextGenerate]_vars

\* The list of stories: every handler that replaces or reshapes it.
NextStories ==
    \/ \E nextSession \in Sessions : SessionArrives(nextSession)
    \/ \E raw \in Drafts : DraftLoaded(raw)
    \/ handleSignOut
    \/ MidnightReset
    \/ handleAddStory
    \/ \E storyId \in StoryIds, value \in EntryTexts : handleJournalEntryChange(storyId, value)
    \/ \E storyId \in StoryIds : handleDeleteStory(storyId)

SpecStories == InitClient /\ [][NextStories]_vars

(***************************************************************************)
(* Vocabulary of the properties                                            *)
(*                                                                         *)
(* These say what a request or a provider answer is in the words of the    *)
(* specification; none of them is used by the handler above.               *)
(***************************************************************************)

Done(r) == pc[r] = "done"

AllSpace(s) == \A i \in 1..Len(s) : IsSpace(s[i])

\* A required field that is missing, empty or whitespace-only.
Blank(f) == f.t = "absent" \/ (f.t = "string" /\ AllSpace(f.s))

\* A valid request: one that validation turns into a ReflectionRequest of
\* the data model (lines 144-148): entryId and content are strings that are
\* non-empty after trimming, goal is a string, null or absent.
ValidRequest(rq) ==
    /\ rq.method = "POST"
    /\ rq.body.kind = "object"
    /\ rq.body.entryId.t = "string" /\ ~AllSpace(rq.body.entryId.s)
    /\ rq.body.content.t = "string" /\ ~AllSpace(rq.body.content.s)
    /\ rq.body.goal.t \in {"absent", "null", "string"}

GoalText(rq) == IF rq.body.goal.t = "string" THEN Trim(rq.body.goal.s) ELSE <<>>

\* The 200 response whose body is exactly the heuristic output for the
\* request's trimmed goal and content.
IsHeuristicResponse(rs, rq) ==
    /\ rs.status = 200
    /\ rs.body = ResponseBody("result", <<>>,
                     Str(buildReflection(GoalText(rq), Trim(rq.body.content.s))),
                     Str(buildAction(GoalText(rq), Trim(rq.body.content.s))))

\* The soft failures of the external attempt: transport error, non-2xx
\* status, payload without the text field, text that is not JSON, parsed
\* JSON without a non-empty reflection.
SoftFailure(rp) ==
    \/ rp.kind \in {"transport", "status", "badPayload", "noText"}
    \/ /\ rp.kind = "ok"
       /\ \/ rp.text.kind \in {"invalid", "null", "number"}
          \/ /\ rp.text.kind = "object"
             /\ rp.text.reflection \in {Absent, Null, Str(<<>>)}

NoCredential(key) == key \in {"unset", "empty"}

CorsHeaders ==
    { "Access-Control-Allow-Origin: *",
      "Access-Control-Allow-Methods: POST, OPTIONS",
      "Access-Control-Allow-Headers: authorization, x-client-info, apikey, content-type" }

ContentTypeHeader == "Content-Type: application/json"

(***************************************************************************)
(* Properties of the handler (checked under Spec)                          *)
(***************************************************************************)

\* C1: a valid request with a credential configured whose external attempt
\* ends in a soft failure is answered 200 with exactly the heuristic output
\* for its goal and content; no error status reaches the caller.
C1_SoftFailureFallsBack ==
    \A r \in Slots :
        (ValidRequest(req[r]) /\ ~NoCredential(local[r].key))
            => /\ pc[r] \in {"fallback", "done"} => (calls[r] = 1 /\ reply[r] # NoReply)
               /\ (Done(r) /\ SoftFailure(reply[r]))
                    => IsHeuristicResponse(resp[r], req[r])

C1_Witness ==
    \E r \in Slots :
        /\ Done(r) /\ ValidRequest(req[r]) /\ local[r].key = "key"
        /\ calls[r] = 1
        /\ reply[r].kind = "ok" /\ reply[r].text.kind = "object"
        /\ reply[r].text.reflection = Str(<<>>)
        /\ resp[r].status = 200

\* C2: with no credential configured the external strategy is skipped for
\* every valid request: no outbound call, nothing logged, and the response
\* is 200 with exactly the heuristic output.
C2_NoCredentialSkipsExternal ==
    \A r \in Slots :
        ValidRequest(req[r]) =>
            /\ pc[r] \in {"fetching", "fallback", "done"} => local[r].key # "unread"
            /\ NoCredential(local[r].key) =>
                /\ calls[r] = 0
                /\ log[r] = <<>>
                /\ reply[r] = NoReply
                /\ pc[r] \in {"fallback", "done"}
                /\ Done(r) => IsHeuristicResponse(resp[r], req[r])

C2_Witness ==
    \E r \in Slots :
        /\ Done(r) /\ ValidRequest(req[r]) /\ local[r].key = "empty"
        /\ req[r].body.goal.t = "string" /\ GoalText(req[r]) # <<>>
        /\ resp[r].status = 200 /\ calls[r] = 0

\* C3: a POST whose body is a JSON object with entryId or content missing,
\* empty or whitespace-only is answered 422 with an error body and no
\* reflection or action, whatever the other properties of the object are.
C3_BlankFieldIs422 ==
    \A r \in Slots :
        (Done(r) /\ req[r].method = "POST" /\ req[r].body.kind = "object"
                 /\ (Blank(req[r].body.entryId) \/ Blank(req[r].body.content)))
            => /\ resp[r].status = 422
               /\ resp[r].body.kind = "error"
               /\ resp[r].body.reflection = Absent
               /\ resp[r].body.action = Absent

\* C4: a POST body that is not JSON is answered 400 with an error body and
\* never 422; a POST body that is JSON is never answered 400.
C4_MalformedIs400 ==
    \A r \in Slots :
        (Done(r) /\ req[r].method = "POST")
            => /\ req[r].body.kind = "garbage"
                    => (resp[r].status = 400 /\ resp[r].body.kind = "error")
               /\ req[r].body.kind # "garbage" => resp[r].status # 400

C4_Witness ==
    \E r \in Slots :
        /\ Done(r) /\ req[r].method = "POST" /\ req[r].body.kind = "garbage"
        /\ resp[r].status = 400

\* C5: every POST ends in a response with status 200, 400 or 422; a body
\* that is JSON but not an object, or whose entryId or content is not a
\* string, is a validation failure (422).
C5_OnlyTwoVisibleFailures ==
    \A r \in Slots :
        (Done(r) /\ req[r].method = "POST")
            => /\ resp[r].status \in {200, 400, 422}
               /\ (\/ req[r].body.kind \in {"null", "number", "array"}
                   \/ req[r].body.entryId.t = "number"
                   \/ req[r].body.content.t = "number")
                    => resp[r].status = 422

\* C6: every 200 response carries a reflection that is a non-empty string
\* and an action that is absent or a string.
C6_SuccessBodyShape ==
    \A r \in Slots :
        (Done(r) /\ resp[r].status = 200)
            => /\ resp[r].body.kind = "result"
               /\ resp[r].body.reflection.t = "string"
               /\ resp[r].body.reflection.s # <<>>
               /\ resp[r].body.action.t \in {"absent", "string"}

\* C7: the method decides before the body is read: OPTIONS is answered 204
\* with an empty body, any method other than OPTIONS and POST 405, whatever
\* the body; such a request is never answered 400 or 422, its body is never
\* read and no strategy runs for it.
C7_MethodBeforeBody ==
    \A r \in Slots :
        (pc[r] # "idle" /\ req[r].method # "POST")
            => /\ pc[r] \in {"received", "done"}
               /\ calls[r] = 0 /\ log[r] = <<>> /\ reply[r] = NoReply
               /\ Done(r) =>
                    IF req[r].method = "OPTIONS"
                    THEN resp[r].status = 204 /\ resp[r].body = EmptyBody
                    ELSE resp[r].status = 405

C7_Witness ==
    \E r \in Slots :
        /\ Done(r) /\ req[r].method = "PUT" /\ req[r].body.kind = "garbage"
        /\ resp[r].status = 405

\* C8 as stated: the cross-origin headers are on every response path, and
\* the Content-Type header is on every path but the pre-flight one.
C8_ContentTypeExceptPreflight ==
    \A r \in Slots :
        (Done(r) /\ resp[r].status \in {200, 204, 400, 405, 422})
            => /\ CorsHeaders \subseteq resp[r].headers
               /\ (ContentTypeHeader \in resp[r].headers) <=> (resp[r].status # 204)

\* C8, amended: the cross-origin headers and the Content-Type header are on
\* every response path, the pre-flight response included.
C8_HeadersOnEveryPath ==
    \A r \in Slots :
        (Done(r) /\ resp[r].status \in {200, 204, 400, 405, 422})
            => /\ CorsHeaders \subseteq resp[r].headers
               /\ ContentTypeHeader \in resp[r].headers

C8_Witness ==
    \E r \in Slots :
        /\ Done(r) /\ resp[r].status = 204
        /\ ContentTypeHeader \in resp[r].headers

(***************************************************************************)
(* Properties of the heuristic strategy (checked under SpecHeuristic)      *)
(***************************************************************************)

\* The words of a text: its maximal runs of non-whitespace, in order.
WordsOf(s, word) ==
    LET text == word \o s
        starts == SelectSeq([i \in 1..Len(text) |-> i],
                            LAMBDA i : /\ ~IsSpace(text[i])
                                       /\ (i = 1 \/ IsSpace(text[i - 1])))
        WordEnd(i) == CHOOSE j \in i..Len(text) :
                          /\ \A k \in i..j : ~IsSpace(text[k])
                          /\ (j = Len(text) \/ IsSpace(text[j + 1]))
    IN  [k \in 1..Len(starts) |-> SubSeq(text, starts[k], WordEnd(starts[k]))]

\* Words written one after the other with single spaces between them.
RECURSIVE Spaced(_)
Spaced(ws) ==
    IF ws = <<>> THEN <<>>
    ELSE IF Len(ws) = 1 THEN ws[1]
    ELSE ws[1] \o <<" ">> \o Spaced(Tail(ws))

\* The words that end a sentence: the ones whose last character is '.',
\* '!' or '?' (inside the text such a word is followed by whitespace).
SentenceEnds(ws) == {k \in 1..Len(ws) : ws[k][Len(ws[k])] \in Terminal}

\* The number of sentences of a text given by its words: one per sentence
\* end, and the unterminated rest, if any.
SentenceCount(ws) ==
    Cardinality(SentenceEnds(ws))
        + (IF ws # <<>> /\ Len(ws) \notin SentenceEnds(ws) THEN 1 ELSE 0)

\* The first three sentences: everything when there are at most three,
\* otherwise the words up to the third sentence end.
FirstThreeSentences(ws) ==
    IF SentenceCount(ws) <= 3 THEN ws
    ELSE LET third == CHOOSE k \in SentenceEnds(ws) :
                          Cardinality({j \in SentenceEnds(ws) : j < k}) = 2
         IN  SubSeq(ws, 1, third)

ParagraphOpeners == {"\n\nKeep your goal of \"", "\n\nOverall the tone feels "}

\* The part of a reflection between "You captured: " and the next paragraph.
SummaryIn(reflection) ==
    LET stop == CHOOSE k \in 2..(Len(reflection) + 1) :
                    /\ k = Len(reflection) + 1 \/ reflection[k] \in ParagraphOpeners
                    /\ \A j \in 2..(k - 1) : reflection[j] \notin ParagraphOpeners
    IN  SubSeq(reflection, 2, stop - 1)

\* C10: the summary after "You captured: " is the first three sentences of
\* the whitespace-normalised content, in order, joined by single spaces,
\* punctuation kept; it has at most three sentences; content of at most
\* three sentences, and content without terminal punctuation, is there in
\* full.
C10_SummaryIsFirstThreeSentences ==
    "reflection" \in hRan =>
        LET words == WordsOf(hContent, <<>>)
            summary == SummaryIn(hReflection)
        IN  /\ hReflection[1] = "You captured: "
            /\ summary = Spaced(FirstThreeSentences(words))
            /\ SentenceCount(WordsOf(summary, <<>>)) <= 3
            /\ SentenceCount(words) <= 3 => summary = Spaced(words)
            /\ SentenceEnds(words) = {} => summary = Spaced(words)

C10_Witness ==
    /\ "reflection" \in hRan
    /\ SentenceCount(WordsOf(hContent, <<>>)) > 3
    /\ SentenceCount(WordsOf(SummaryIn(hReflection), <<>>)) = 3
    /\ \E i \in 1..Len(hContent) : hContent[i] \in {"\n", "\t"}

(***************************************************************************)
(* Properties of the tone (checked under SpecTone)                         *)
(***************************************************************************)

\* Two characters that are the same letter, case ignored.
SameLetter(a, b) ==
    \/ a = b
    \/ {a, b} \in {{"T", "t"}, {"G", "g"}, {"E", "e"}}

\* The word occurs in the text at some position, case ignored.
Occurs(word, text) ==
    \E i \in 1..Len(text) :
        /\ i + Len(word) - 1 <= Len(text)
        /\ \A j \in 1..Len(word) : SameLetter(text[i + j - 1], word[j])

PositiveWords == {positiveMarkers[k] : k \in 1..Len(positiveMarkers)}
StressedWords == {stressedMarkers[k] : k \in 1..Len(stressedMarkers)}

\* The tallies of the specification: the number of distinct markers of a
\* list that occur in the text.
PositiveTally(text) == Cardinality({w \in PositiveWords : Occurs(w, text)})
NegativeTally(text) == Cardinality({w \in StressedWords : Occurs(w, text)})

Tones == {"upbeat", "stressed", "steady"}

\* C11: deriveTone classifies by strict majority of the two tallies: upbeat
\* exactly when the positive tally is the greater, stressed exactly when
\* the negative tally is the greater, steady exactly when they are equal
\* (0 to 0 included); it returns no other value.
C11_ToneByStrictMajority ==
    "tone" \in hRan =>
        LET p == PositiveTally(hContent)
            n == NegativeTally(hContent)
        IN  /\ hTone \in Tones
            /\ hTone = "upbeat" <=> p > n
            /\ hTone = "stressed" <=> n > p
            /\ hTone = "steady" <=> p = n

\* A tie between non-zero tallies has been classified.
C11_Witness ==
    /\ "tone" \in hRan
    /\ PositiveTally(hContent) = NegativeTally(hContent)
    /\ PositiveTally(hContent) >= 1
    /\ hTone = "steady"

\* The positions of the text at which the word starts, case ignored.
OccurrencesOf(word, text) ==
    {i \in 1..Len(text) :
        /\ i + Len(word) - 1 <= Len(text)
        /\ \A j \in 1..Len(word) : SameLetter(text[i + j - 1], word[j])}

\* C12: a marker adds at most 1 to its tally however often it occurs, and
\* is matched as a substring with case ignored: each tally is the number of
\* distinct markers of its list that occur, so at most 5 and at most 6, and
\* writing a marker that is already there once more leaves the tone as it
\* was.
C12_MarkerCountsOnce ==
    "tone" \in hRan =>
        /\ hHits.positive = PositiveTally(hContent)
        /\ hHits.stressed = NegativeTally(hContent)
        /\ hHits.positive <= 5
        /\ hHits.stressed <= 6
        /\ \A w \in PositiveWords \cup StressedWords :
              Occurs(w, hContent) => deriveTone(hContent \o <<" ">> \o w) = hTone

\* A marker written twice, once with a capital, has counted once.
C12_Witness ==
    /\ "tone" \in hRan
    /\ Cardinality(OccurrencesOf(<<"t", "i", "r", "e", "d">>, hContent)) >= 2
    /\ \E i \in 1..Len(hContent) : hContent[i] = "T"
    /\ hHits.stressed = 1
    /\ hHits.positive = 1
    /\ hTone = "steady"

(***************************************************************************)
(* Properties of the action and of the heuristic as a whole                *)
(***************************************************************************)

\* The tone the specification gives a text: strict majority of the tallies.
ToneOf(text) ==
    IF PositiveTally(text) > NegativeTally(text) THEN "upbeat"
    ELSE IF NegativeTally(text) > PositiveTally(text) THEN "stressed"
    ELSE "steady"

\* The 24-hour concrete-step suggestion that names the goal.
GoalAction(goal) ==
    <<"Identify one concrete step you can take in the next 24 hours to move \"">>
    \o goal \o <<"\" forward.">>

\* The fixed suggestion of each tone.
ToneAction(tone) ==
    IF tone = "upbeat"
    THEN <<"Capture what made today energising and schedule more of it for the week ahead.">>
    ELSE IF tone = "stressed"
    THEN <<"Choose a small restorative habit for tomorrow - like a short walk, journaling break, or a conversation with a friend.">>
    ELSE <<"Note one takeaway from this entry and plan a follow-up action before your next journaling session.">>

\* C13: with a non-empty goal the action is the 24-hour concrete-step text
\* naming that goal, whatever the content and its tone; with an empty goal
\* the action is the one fixed text of the content's tone.
C13_GoalTakesPrecedence ==
    "action" \in hRan =>
        /\ hGoal # <<>> => hAction = GoalAction(hGoal)
        /\ hGoal = <<>> => hAction = ToneAction(ToneOf(hContent))
        /\ \A s, t \in Tones : s # t => ToneAction(s) # ToneAction(t)

\* A goal with a stressed entry: the action names the goal and is not the
\* stressed suggestion.
C13_Witness ==
    /\ "action" \in hRan
    /\ hGoal # <<>>
    /\ ToneOf(hContent) = "stressed"
    /\ hAction = GoalAction(hGoal)
    /\ hAction # ToneAction("stressed")

\* C14: the heuristic is total over validated input: for every goal and
\* every content that is non-empty after trimming, buildReflection returns
\* a non-empty reflection and buildAction a non-empty action (checked under
\* SpecHeuristic, whose contents include bare punctuation and text without
\* any sentence end).
C14_HeuristicTotal ==
    /\ "reflection" \in hRan => hReflection # <<>> /\ ~AllSpace(hReflection)
    /\ "action" \in hRan => hAction # <<>> /\ ~AllSpace(hAction)

\* Both functions have returned for an entry without a goal that has no
\* letter in it.
C14_Witness ==
    /\ hRan = {"reflection", "action", "tone"}
    /\ hGoal = <<>>
    /\ \A i \in 1..Len(hContent) : hContent[i] \in Terminal \/ IsSpace(hContent[i])
    /\ hReflection # <<>>
    /\ hAction # <<>>

(***************************************************************************)
(* Properties of the handler, continued (checked under Spec)               *)
(***************************************************************************)

\* A goal that is absent, null, empty or whitespace only.
NoGoal(f) == f.t \in {"absent", "null"} \/ (f.t = "string" /\ AllSpace(f.s))

GoalParagraph == "\n\nKeep your goal of \""

\* C15: an absent goal is an empty goal: without a credential, a valid
\* request whose goal is absent, null, "" or whitespace only is answered
\* with the response its entry gets with the goal "", whichever of the four
\* it was: no goal paragraph in the reflection, and the action of the
\* entry's tone.
C15_AbsentGoalIsEmptyGoal ==
    \A r \in Slots :
        (Done(r) /\ ValidRequest(req[r]) /\ NoCredential(local[r].key)
                 /\ NoGoal(req[r].body.goal)) =>
            LET content == Trim(req[r].body.content.s)
            IN  /\ resp[r] = jsonResponse(HeuristicBody(<<>>, content), 200)
                /\ \A i \in 1..Len(resp[r].body.reflection.s) :
                      resp[r].body.reflection.s[i] # GoalParagraph
                /\ resp[r].body.action.s = ToneAction(ToneOf(content))

\* A whitespace-only goal has been answered without a credential.
C15_Witness ==
    \E r \in Slots :
        /\ Done(r) /\ ValidRequest(req[r]) /\ NoCredential(local[r].key)
        /\ req[r].body.goal = Str(<<" ">>)
        /\ resp[r].status = 200
        /\ ToneOf(Trim(req[r].body.content.s)) = "upbeat"

\* C16: the external strategy never retries: a request has at most one
\* outbound provider call, and once its call has ended in a soft failure
\* the request goes to its response with that one call and no other.
C16_AtMostOneCall ==
    \A r \in Slots :
        /\ calls[r] <= 1
        /\ SoftFailure(reply[r]) => calls[r] = 1 /\ pc[r] \in {"fallback", "done"}
        /\ pc[r] = "fetching" => calls[r] = 1

\* A request has been answered after a soft failure of its one call.
C16_Witness ==
    \E r \in Slots :
        /\ Done(r) /\ SoftFailure(reply[r])
        /\ calls[r] = 1
        /\ resp[r].status = 200

\* The step a request's handler can take next, once the event loop gives
\* it the turn: a continuation of the handler, or the settling of the
\* fetch it awaits.
HandlerStep(r) ==
    \/ Dispatch(r)
    \/ ReadBody(r)
    \/ ProviderSettles(r, ProviderReplies)
    \/ Fallback(r)

\* C17: a stalled provider cannot hang a request: a valid request that
\* waits on its outbound call always has a step towards its response, even
\* when that call never completes (a timeout would end the attempt and
\* hand over to the heuristic).
C17_StalledProviderCannotHang ==
    \A r \in Slots :
        (ValidRequest(req[r]) /\ pc[r] = "fetching") => ENABLED HandlerStep(r)

\* C18: whether the external strategy is attempted is fixed by the
\* configuration read at process start: every valid request past
\* validation has issued its outbound call exactly when a credential was in
\* the environment at start-up, whatever has been done to the environment
\* since.
C18_CredentialFixedAtStart ==
    \A r \in Slots :
        (ValidRequest(req[r]) /\ pc[r] \in {"fetching", "fallback", "done"}) =>
            (calls[r] = 1 <=> ~NoCredential(startKey))

(***************************************************************************)
(* Properties of concurrent requests (checked under SpecConc)              *)
(***************************************************************************)

\* The response a request gets when it is the only one in the process:
\* the handler run from top to bottom on its method and body, with the
\* credential it found and the answer its provider call got.
HandledAlone(rq, key, rp) ==
    IF rq.method = "OPTIONS"
    THEN [status |-> 204, body |-> EmptyBody, headers |-> baseHeaders]
    ELSE IF rq.method # "POST"
    THEN jsonResponse(ErrorBody("Method not allowed"), 405)
    ELSE LET v == Validate(rq.body)
         IN  IF v.outcome = "malformed"
             THEN jsonResponse(ErrorBody("Invalid JSON payload"), 400)
             ELSE IF v.outcome = "threw"
             THEN UnhandledException
             ELSE IF v.outcome = "invalid"
             THEN jsonResponse(ErrorBody("Both entryId and content are required."), 422)
             ELSE IF ~NoCredential(key) /\ ~SoftFailure(rp)
             THEN jsonResponse(ResponseBody("result", <<>>,
                                   rp.text.reflection, rp.text.action), 200)
             ELSE jsonResponse(HeuristicBody(v.goal, v.content), 200)

\* What the process holds for one request.
SlotState(r) == <<pc[r], req[r], local[r], reply[r], resp[r], calls[r], log[r]>>

\* C19: requests do not interfere: under every interleaving, the response
\* of a request is the one it would get alone with its payload, the
\* credential it read and the answer its provider call got; and a step of
\* one request leaves everything held for the other as it was.
C19_RequestsDoNotInterfere ==
    /\ [](\A r \in Slots :
            Done(r) => resp[r] = HandledAlone(req[r], local[r].key, reply[r]))
    /\ [][\A r \in Slots :
            SlotState(r)' # SlotState(r) =>
                \A q \in Slots \ {r} : SlotState(q)' = SlotState(q)]_vars

\* Two valid requests in flight together have both been answered, one by
\* the provider and one by the heuristic, with the same content and goal
\* fields or not.
C19_Witness ==
    /\ \A r \in Slots : Done(r) /\ ValidRequest(req[r])
    /\ req["r1"].body # req["r2"].body
    /\ SoftFailure(reply["r1"])
    /\ reply["r2"].kind = "ok" /\ ~SoftFailure(reply["r2"])
    /\ resp["r1"].body.reflection # resp["r2"].body.reflection

(***************************************************************************)
(* Properties of the log (checked under Spec)                              *)
(***************************************************************************)

\* The request has a log record that carries the given thing.
LoggedWith(r, carries) == \E i \in 1..Len(log[r]) : log[r][i].carries = carries

\* The request has a log record with the given message.
LoggedAs(r, message) == \E i \in 1..Len(log[r]) : log[r][i].message = message

\* C20: every soft failure is logged before the fallback response is sent
\* and stays out of the response: once a request's call has ended in a
\* soft failure, its log holds a record of that failure - with the status
\* for a non-2xx answer, with the caught error for a transport error and
\* for text that is not JSON, and naming the missing text or the missing
\* reflection otherwise - already while the response is still to be built;
\* and the response is the 200 result without an error field.
C20_SoftFailureLogged ==
    \A r \in Slots :
        SoftFailure(reply[r]) =>
            /\ log[r] # <<>>
            /\ reply[r].kind = "status" => LoggedWith(r, "status")
            /\ reply[r].kind \in {"transport", "badPayload"} => LoggedWith(r, "error")
            /\ reply[r].kind = "noText" => LoggedAs(r, "Gemini completion missing content")
            /\ (reply[r].kind = "ok" /\ reply[r].text.kind = "invalid") =>
                  LoggedWith(r, "error")
            /\ reply[r].kind = "ok" =>
                  LoggedAs(r, "Gemini completion did not include reflection")
            /\ pc[r] = "fallback" => resp[r] = NoResponse
            /\ Done(r) => /\ resp[r].status = 200
                          /\ resp[r].body.kind = "result"
                          /\ resp[r].body.error = <<>>

\* Text that is not JSON has been logged twice and answered with a 200.
C20_Witness ==
    \E r \in Slots :
        /\ Done(r)
        /\ reply[r].kind = "ok" /\ reply[r].text.kind = "invalid"
        /\ Len(log[r]) = 2
        /\ resp[r].status = 200

(***************************************************************************)
(* Properties of the reflection's composition (checked under SpecTone)     *)
(***************************************************************************)

GoalParagraphEnd == "\" in focus and notice how this entry relates to it."
ToneParagraph == "\n\nOverall the tone feels "

\* The paragraph that quotes the goal; nothing for an empty goal.
GoalParagraphFor(goal) ==
    IF goal # <<>> THEN <<GoalParagraph>> \o goal \o <<GoalParagraphEnd>> ELSE <<>>

\* How often a piece of fixed text occurs in a reflection.
TimesIn(reflection, piece) ==
    Cardinality({i \in 1..Len(reflection) : reflection[i] = piece})

\* C21: the heuristic reflection is, in this order: "You captured: " and
\* the summary; the goal paragraph quoting the goal verbatim, there exactly
\* when the goal is non-empty; and one tone paragraph naming the tone of
\* the entry, always there and always last.
C21_ReflectionComposition ==
    "reflection" \in hRan =>
        /\ hReflection =
              <<"You captured: ">>
              \o Spaced(FirstThreeSentences(WordsOf(hContent, <<>>)))
              \o GoalParagraphFor(hGoal)
              \o <<ToneParagraph, ToneOf(hContent), ".">>
        /\ TimesIn(hReflection, GoalParagraph) = (IF hGoal # <<>> THEN 1 ELSE 0)
        /\ TimesIn(hReflection, ToneParagraph) = 1

\* A reflection with all three parts, the tone not the steady one.
C21_Witness ==
    /\ "reflection" \in hRan
    /\ hGoal # <<>>
    /\ ToneOf(hContent) = "upbeat"
    /\ TimesIn(hReflection, GoalParagraph) = 1
    /\ hReflection[Len(hReflection) - 1] = "upbeat"

\* C26: the tone named in the reflection (derived from the normalised
\* content) is the tone that picks the action of an entry without goal
\* (derived from the trimmed content as it was written), and the tone
\* deriveTone gives that content: collapsing whitespace changes no tone.
C26_OneToneForReflectionAndAction ==
    /\ {"reflection", "action"} \subseteq hRan /\ hGoal = <<>> =>
          hAction = ToneAction(hReflection[Len(hReflection) - 1])
    /\ {"reflection", "tone"} \subseteq hRan =>
          hReflection[Len(hReflection) - 1] = hTone

\* An entry whose whitespace runs were collapsed, with a tone that is not
\* the steady one, has its reflection and its action.
C26_Witness ==
    /\ hRan = {"reflection", "action", "tone"}
    /\ hGoal = <<>>
    /\ \E i \in 1..(Len(hContent) - 1) : IsSpace(hContent[i]) /\ IsSpace(hContent[i + 1])
    /\ hTone = "stressed"
    /\ hAction = ToneAction("stressed")

(***************************************************************************)
(* Properties of the order of the handler's steps (checked under Spec)     *)
(***************************************************************************)

\* The moves of one request: received, validating ("reading"), external
\* attempt ("fetching"), heuristic ("fallback"), responding ("done").
StepOrder ==
    { <<"idle", "received">>,
      <<"received", "reading">>, <<"received", "done">>,
      <<"reading", "done">>, <<"reading", "fetching">>, <<"reading", "fallback">>,
      <<"fetching", "done">>, <<"fetching", "fallback">>,
      <<"fallback", "done">>,
      <<"done", "idle">> }

\* C25: the external attempt comes only after validation succeeded: a
\* request answered 405, 400 or 422 has made no outbound call, a request
\* with an outbound call is a valid one, and a request moves only along
\* validate, external attempt, heuristic, respond - to the heuristic only
\* when the external attempt gave nothing (no credential, or a soft
\* failure), and from the external attempt straight to the response only
\* with the provider's result.
C25_ValidateAttemptFallbackRespond ==
    /\ [](\A r \in Slots :
            /\ (Done(r) /\ resp[r].status \in {405, 400, 422}) =>
                  calls[r] = 0 /\ reply[r] = NoReply /\ local[r].key = "unread"
            /\ calls[r] >= 1 => ValidRequest(req[r]))
    /\ [][\A r \in Slots :
            pc[r]' # pc[r] =>
                /\ <<pc[r], pc[r]'>> \in StepOrder
                /\ pc[r]' = "fallback" =>
                      \/ pc[r] = "reading" /\ NoCredential(env) /\ calls[r]' = 0
                      \/ pc[r] = "fetching" /\ SoftFailure(reply[r]')
                /\ (pc[r] = "fetching" /\ pc[r]' = "done") =>
                      ~SoftFailure(reply[r]') /\ resp[r]'.status = 200
                /\ (pc[r] = "reading" /\ pc[r]' = "done") =>
                      resp[r]'.status \in {400, 422, 500}]_vars

\* With a credential in place, a request was rejected for a missing field
\* and made no call.
C25_Witness ==
    \E r \in Slots :
        /\ Done(r) /\ resp[r].status = 422
        /\ env = "key" /\ startKey = "key"
        /\ calls[r] = 0

(***************************************************************************)
(* Properties of the journal page                                          *)
(***************************************************************************)

\* C30: the list of stories is never empty: whatever sequence of add-story,
\* delete-story, edit, draft load, midnight reset and sign-out the page went
\* through, at least one story exists.
C30_StoriesNeverEmpty == Len(dailyGoals.stories) >= 1

\* A step of the page that issues the journal_entries insert of a generation.
IssuesInsert == Len(generations') > Len(generations)

\* A step of the page that issues the generate-reflection invocation of a
\* generation.
IssuesInvoke ==
    \E i \in 1..Len(generations) :
        generations[i].phase = "insert" /\ generations'[i].phase = "invoke"

\* C22: while there is no signed-in session no journal_entries insert and no
\* generate-reflection invocation is issued, by the button, by a direct call
\* of handleGenerate or by the auto-generate timer; a request made without a
\* session ends in the error status with the sign-in feedback.
C22_NoCallsWithoutSession ==
    [][/\ (IssuesInsert \/ IssuesInvoke) => session # NoSession
       /\ (session = NoSession /\ generations' = generations /\ status' # status) =>
             (status' = "error" /\ feedback' = SignInFeedback)]_vars

\* The goal text the page holds: the trimmed, non-empty goals, joined.
GoalTextOfPage == goalsPayload(dailyGoals.goals)

\* The story's entry as the page holds it.
EntryOf(storyId) == FindStory(dailyGoals.stories, storyId).journalEntry

\* C23: a generation inserts the journal entry first and invokes the
\* function only after the insert returned a row, with entryId the row's
\* id, goal the goal text and content the trimmed entry.
C23_InsertThenInvoke ==
    [][/\ IssuesInsert =>
            LET g == generations'[Len(generations')]
            IN  /\ g.phase = "insert"
                /\ g.body = <<>>
                /\ g.content = Trim(EntryOf(g.story))
                /\ g.content # <<>>
                /\ g.goal = GoalTextOfPage
       /\ \A i \in 1..Len(generations) :
            (generations[i].phase = "insert" /\ generations'[i].phase = "invoke") =>
                /\ generations'[i].row \in RowIds
                /\ generations'[i].body =
                      <<[entryId |-> generations'[i].row,
                         goal |-> generations[i].goal,
                         content |-> generations[i].content]>>
       /\ \A i \in 1..Len(generations) :
            generations'[i].phase = "invoke" =>
                generations[i].phase \in {"insert", "invoke"}]_vars

\* The generations of a story that have not returned.
InFlight(storyId) ==
    {i \in 1..Len(generations) :
        /\ generations[i].story = storyId
        /\ generations[i].phase \in {"insert", "invoke", "insight"}}

\* The AI response the page shows for a story, <<>> without the story.
ShownFor(storyId) == FindStory(dailyGoals.stories, storyId).aiResponse

\* Generation i moves from one await to the next, or returns.
Moves(i, from, to) ==
    /\ i \in 1..Len(generations)
    /\ generations[i].phase = from
    /\ generations'[i].phase = to

\* The order of the awaits of a generation.
FlowOrder ==
    {<<"insert", "invoke">>, <<"insert", "done">>, <<"invoke", "insight">>,
     <<"invoke", "done">>, <<"insight", "done">>}

\* C29: a generation sets its story to saving, then reflecting, then success
\* or error.  A failed or empty insert ends in error without an invocation,
\* a failed invocation ends in error, a generation that stored (or failed to
\* store) the insight of a returned reflection ends in success with the
\* response shown, and no story stays in saving or reflecting without a
\* generation that is still awaited.
C29_SavingReflectingThenSettled ==
    /\ [](\A s \in StoryIds :
            storyStatuses[s] \in {"saving", "reflecting"} => InFlight(s) # {})
    /\ [][/\ IssuesInsert =>
                storyStatuses'[generations'[Len(generations')].story] = "saving"
          /\ \A i \in 1..Len(generations) :
                LET g == generations[i]
                IN  /\ generations'[i].phase # g.phase =>
                          \/ <<g.phase, generations'[i].phase>> \in FlowOrder
                          \/ <<g.phase, generations'[i].phase>> = <<"done", "past">>
                    /\ Moves(i, "insert", "invoke") =>
                          /\ storyStatuses'[g.story] = "reflecting"
                          /\ generations'[i].row \in RowIds
                    /\ Moves(i, "insert", "done") =>
                          /\ storyStatuses'[g.story] = "error"
                          /\ status' = "error"
                    /\ (Moves(i, "invoke", "done") /\ feedback' = "invoke error") =>
                          /\ storyStatuses'[g.story] = "error"
                          /\ status' = "error"
                    /\ Moves(i, "invoke", "done") =>
                          storyStatuses'[g.story] \in {"success", "error"}
                    /\ Moves(i, "invoke", "insight") =>
                          /\ storyStatuses'[g.story] = storyStatuses[g.story]
                          /\ g.story \in StoryIdsOf(dailyGoals.stories) =>
                                ShownFor(g.story)' # <<>>
                    /\ Moves(i, "insight", "done") =>
                          /\ storyStatuses'[g.story] = "success"
                          /\ status' = "success"
                          /\ ShownFor(g.story)' = ShownFor(g.story)]_vars

\* A generation whose reflection was returned has ended and its story shows
\* success and the response.
C29_Witness ==
    \E i \in 1..Len(generations) :
        /\ generations[i].phase = "done"
        /\ storyStatuses[generations[i].story] = "success"
        /\ ShownFor(generations[i].story) # <<>>
        /\ feedback = "Reflection generated successfully."

\* C27: at most one generation per story is in flight at any time, also
\* when the entry is edited, the day rolls over or a draft is loaded while
\* the generation is awaited.
C27_OneGenerationPerStory ==
    \A s \in StoryIds : Cardinality(InFlight(s)) <= 1

\* The user edits the entry of a story: its text changes, and nothing of
\* the session does.
Edits(storyId) ==
    /\ storyId \in StoryIdsOf(dailyGoals.stories)
    /\ EntryOf(storyId)' # EntryOf(storyId)
    /\ UNCHANGED <<session, draftLoading>>

\* The story's timer starts a generation.
AutoStarts(storyId) ==
    /\ IssuesInsert
    /\ generations'[Len(generations')].story = storyId
    /\ generations'[Len(generations')].auto

\* A generation of the story returned, with success or with error, and the
\* story's entry text has not changed since.
FinishedFor(storyId) ==
    \E i \in 1..Len(generations) :
        generations[i].story = storyId /\ generations[i].phase = "done"

\* C28: auto-generation is debounced and does not loop: an edit of a story's
\* entry cancels the timer the story had (the timer the story has afterwards
\* belongs to the new text), and once a generation of a story returned no
\* timer starts another one before the story's entry text changes.
C28_DebouncedNoRetry ==
    [][\A s \in StoryIds :
          /\ Edits(s) =>
                \/ ~autoGenerateTimers'[s].set
                \/ /\ autoGenerateTimers'[s] =
                         ClosureOf(Closure(session', dailyGoals'.goals,
                                           dailyGoals'.stories), s)
                   /\ pendingAutoGeneration'[s] = Str(Trim(EntryOf(s)'))
          /\ AutoStarts(s) => ~FinishedFor(s)]_vars

\* The story is on the page of a signed-in user with an entry that is not
\* blank.
Written(storyId) ==
    /\ session # NoSession
    /\ storyId \in StoryIdsOf(dailyGoals.stories)
    /\ Trim(EntryOf(storyId)) # <<>>

\* C24: for a signed-in user an edit that leaves an entry with new text
\* starts the story's auto-generate timer, the only thing that starts a
\* generation without a click once the text stops changing.
C24_EditStartsAutoGeneration ==
    [][\A s \in StoryIds :
          (/\ Edits(s)
           /\ Written(s)'
           /\ Trim(EntryOf(s))' # Trim(EntryOf(s)))
             => autoGenerateTimers'[s].set]_vars

=============================================================================
